---------------------------- MODULE Spec2Model ----------------------------
(***************************************************************************)
(* Invoice reconciliation: price comparison (comparator.py), decision      *)
(* synthesis (decision.py), the learning store (vendor_db.py) and the      *)
(* processing pipeline (main.py), with the advisory LLM analysis           *)
(* (analyzer.py) and the JSON payload (report.py).                         *)
(*                                                                         *)
(* Conventions of the model                                                *)
(*   - money is an integer number of cents; averages and the quantity      *)
(*     factor are exact fractions (numerator, denominator) and every       *)
(*     comparison of the code is done by cross-multiplication, so the      *)
(*     model follows the code's arithmetic without floating-point rounding;*)
(*   - a Python value that may be None is a sequence: <<>> is None and     *)
(*     <<v>> is the value v;                                               *)
(*   - formatted strings (reason codes, questions, observations) are       *)
(*     records [kind, subject]: kind is the fixed text, subject the        *)
(*     sequence of names formatted into it.                                *)
(***************************************************************************)
EXTENDS Integers, Sequences, FiniteSets, TLC

VARIABLES
    pc,                  \* position of the caller (pipeline step or harness)
    db,                  \* the learning store file (vendor_db.DB_PATH)
    invoice_data,        \* extract_invoice's result for the current invoice
    vendor_match,        \* match_vendor's result
    line_comparisons,    \* compare_line_items' result
    math_issues,         \* check_math's result
    tax_check,           \* check_tax's result
    shipping_check,      \* check_shipping's result
    extraction_warnings, \* invoice_data["warnings"] as handed to decide
    decision_result,     \* decide's result
    ai_analysis,         \* analyze_invoice's result
    json_payload,        \* build_json_payload's result
    calls                \* record_invoice calls in progress in concurrent callers

vars == <<pc, db, invoice_data, vendor_match, line_comparisons, math_issues,
          tax_check, shipping_check, extraction_warnings, decision_result,
          ai_analysis, json_payload, calls>>

---------------------------------------------------------------------------
(* Bounds of the model *)

MaxItems == 2

---------------------------------------------------------------------------
(* Python values *)

None == <<>>
Some(v) == <<v>>
IsNone(o) == o = <<>>
Val(o) == o[1]

Abs(x) == IF x < 0 THEN 0 - x ELSE x
Min2(a, b) == IF a <= b THEN a ELSE b
Max2(a, b) == IF a >= b THEN a ELSE b

SeqsUpTo(S, n) == UNION {[1..k -> S] : k \in 0..n}

---------------------------------------------------------------------------
(* decision.py *)

Flag(kind, subject) == [kind |-> kind, subject |-> subject]
Question(kind, subject) == [kind |-> kind, subject |-> subject]
Observation(kind, subject) == [kind |-> kind, subject |-> subject]

Names(comps) == [i \in 1..Len(comps) |-> comps[i].canonical_item]

EmptyAcc == [flags |-> <<>>, observations |-> <<>>, questions |-> <<>>]

\* a variant that asks about a low-confidence match without flagging it
VendorCheck_LowConfidenceAsked(acc, vm) ==
    CASE vm.match_type = "none" ->
           [acc EXCEPT !.flags = @ \o <<Flag("VENDOR_NOT_IN_APPROVED_LIST", <<>>)>>,
                       !.questions = @ \o <<Question("VENDOR_ONBOARDING", <<>>)>>]
      [] vm.match_type = "fuzzy_low_confidence" ->
           [acc EXCEPT !.questions = @ \o <<Question("VENDOR_CONFIRM_MATCH", vm.canonical_name)>>]
      [] vm.match_type = "fuzzy" ->
           [acc EXCEPT !.observations = @ \o <<Observation("VENDOR_FUZZY", vm.canonical_name)>>]
      [] vm.match_type = "alias" ->
           [acc EXCEPT !.observations = @ \o <<Observation("VENDOR_ALIAS", vm.canonical_name)>>]
      [] OTHER -> acc

\* VENDOR CHECK (hard gate)
VendorCheck(acc, vm) ==
    CASE vm.match_type = "none" ->
           [acc EXCEPT !.flags = @ \o <<Flag("VENDOR_NOT_IN_APPROVED_LIST", <<>>)>>,
                       !.questions = @ \o <<Question("VENDOR_ONBOARDING", <<>>)>>]
      [] vm.match_type = "fuzzy_low_confidence" ->
           [acc EXCEPT !.flags = @ \o <<Flag("VENDOR_LOW_CONFIDENCE_MATCH", <<>>)>>,
                       !.questions = @ \o <<Question("VENDOR_CONFIRM_MATCH", vm.canonical_name)>>]
      [] vm.match_type = "fuzzy" ->
           [acc EXCEPT !.observations = @ \o <<Observation("VENDOR_FUZZY", vm.canonical_name)>>]
      [] vm.match_type = "alias" ->
           [acc EXCEPT !.observations = @ \o <<Observation("VENDOR_ALIAS", vm.canonical_name)>>]
      [] OTHER -> acc

ItemsWithStatus(lc, st) == SelectSeq(lc, LAMBDA c : c.status = st)

\* the loop over line_comparisons: the three buckets are ItemsWithStatus, and
\* a MISSING_PRICE item appends its reason code at once
MissingPriceFlags(acc, lc) ==
    LET missing == ItemsWithStatus(lc, "MISSING_PRICE")
    IN  [acc EXCEPT !.flags = @ \o [i \in 1..Len(missing) |->
                                     Flag("MISSING_PRICE", <<missing[i].canonical_item>>)]]

\* _assess_unknown_items: price sanity notes and the first-time-order question
AssessUnknownItems(acc, items) ==
    LET reasonable == SelectSeq(items, LAMBDA c :
                          /\ ~IsNone(c.invoice_unit_price)
                          /\ 100 <= Val(c.invoice_unit_price)
                          /\ Val(c.invoice_unit_price) <= 100000)
        concerning == SelectSeq(items, LAMBDA c :
                          \/ IsNone(c.invoice_unit_price)
                          \/ Val(c.invoice_unit_price) < 100
                          \/ Val(c.invoice_unit_price) > 100000)
        obs1 == IF reasonable # <<>>
                THEN <<Observation("PRICES_REASONABLE", Names(reasonable))>> ELSE <<>>
        obs2 == IF concerning # <<>>
                THEN <<Observation("UNUSUAL_PRICING", Names(concerning))>> ELSE <<>>
    IN  [acc EXCEPT !.observations = @ \o obs1 \o obs2,
                    !.questions = @ \o <<Question("FIRST_TIME_ORDER", <<>>)>>]

\* a variant that treats the no-rate items of an unmatched vendor as covered by
\* the vendor gate alone
NoRateCheck_Folded(acc, vm, lc) ==
    LET items_no_rate == ItemsWithStatus(lc, "NO_CONTRACT_RATE")
    IN  IF items_no_rate = <<>> \/ vm.match_type = "none" THEN acc
        ELSE [acc EXCEPT
                 !.flags = @ \o <<Flag("NEW_ITEMS_NO_RATE_HISTORY", Names(items_no_rate))>>,
                 !.questions = @ \o <<Question("NO_HISTORICAL_PRICING", Names(items_no_rate))>>]

\* a variant that lets items without rate history pass
NoRateCheck_Unflagged(acc, vm, lc) == acc

\* No rate history
NoRateCheck(acc, vm, lc) ==
    LET items_no_rate == ItemsWithStatus(lc, "NO_CONTRACT_RATE")
    IN  IF items_no_rate = <<>> THEN acc
        ELSE IF vm.match_type = "none"
        THEN AssessUnknownItems(
                 [acc EXCEPT !.flags = @ \o <<Flag("VENDOR_NOT_IN_APPROVED_LIST", <<>>)>>],
                 items_no_rate)
        ELSE [acc EXCEPT
                 !.flags = @ \o <<Flag("NEW_ITEMS_NO_RATE_HISTORY", Names(items_no_rate))>>,
                 !.questions = @ \o <<Question("NO_HISTORICAL_PRICING", Names(items_no_rate))>>]

\* Hard flag: beyond 1.5x/0.75x threshold
OutOfRangeCheck(acc, lc) ==
    LET items_out_of_range == ItemsWithStatus(lc, "OUT_OF_RANGE")
    IN  IF items_out_of_range = <<>> THEN acc
        ELSE [acc EXCEPT
                 !.flags = @ \o [i \in 1..Len(items_out_of_range) |->
                                  Flag("PRICE_ANOMALY", <<items_out_of_range[i].canonical_item>>)],
                 !.questions = @ \o <<Question("PRICE_ANOMALIES", Names(items_out_of_range))>>]

TotalPriced(lc) ==
    Len(SelectSeq(lc, LAMBDA c : c.status \notin {"MISSING_PRICE", "NO_CONTRACT_RATE"}))

\* a variant whose pattern detection counts the OUTSIDE_RANGE items only
OutsideRangeCheck_SoftOnly(acc, lc) ==
    LET items_outside_range == ItemsWithStatus(lc, "OUTSIDE_RANGE")
        total_priced == TotalPriced(lc)
        all_outside == Len(items_outside_range) = total_priced /\ total_priced > 1
    IN  IF items_outside_range = <<>> THEN acc
        ELSE [acc EXCEPT
                 !.flags = @ \o [i \in 1..Len(items_outside_range) |->
                                  Flag("PRICE_OUTSIDE_RANGE", <<items_outside_range[i].canonical_item>>)],
                 !.questions = @ \o (IF all_outside
                                      THEN <<Question("SYSTEMIC_PRICING", <<>>)>> ELSE <<>>),
                 !.observations = @ \o <<Observation("PRICE_VARIANCE", Names(items_outside_range))>>]

\* Soft flag: outside range but within threshold, with the pattern detection
OutsideRangeCheck(acc, lc) ==
    LET items_outside_range == ItemsWithStatus(lc, "OUTSIDE_RANGE")
        items_out_of_range == ItemsWithStatus(lc, "OUT_OF_RANGE")
        total_priced == TotalPriced(lc)
        all_outside == /\ Len(items_outside_range) + Len(items_out_of_range) = total_priced
                       /\ total_priced > 1
    IN  IF items_outside_range = <<>> THEN acc
        ELSE [acc EXCEPT
                 !.flags = @ \o [i \in 1..Len(items_outside_range) |->
                                  Flag("PRICE_OUTSIDE_RANGE", <<items_outside_range[i].canonical_item>>)],
                 !.questions = @ \o (IF all_outside
                                      THEN <<Question("SYSTEMIC_PRICING", <<>>)>> ELSE <<>>),
                 !.observations = @ \o <<Observation("PRICE_VARIANCE", Names(items_outside_range))>>]

\* MATH CHECK (hard gate)
MathCheck(acc, mi) ==
    IF mi = <<>> THEN acc
    ELSE [acc EXCEPT
             !.flags = @ \o <<Flag("MATH_DISCREPANCY", <<>>)>>,
             !.observations = @ \o [i \in 1..Len(mi) |-> Observation("MATH_ISSUE", <<mi[i]>>)],
             !.questions = @ \o <<Question("MATH_DOES_NOT_ADD_UP", <<>>)>>]

\* a variant in which an unrecognized tax rate is a hard gate
TaxShippingCheck_TaxGate(acc, tc, sc) ==
    LET tax == IF tc.status \in {"OBSERVATION", "OK"}
               THEN <<Observation("TAX", <<tc.note>>)>> ELSE <<>>
        shp == IF sc.status \in {"OBSERVATION", "OK"}
               THEN <<Observation("SHIPPING", <<sc.note>>)>> ELSE <<>>
    IN  [acc EXCEPT !.observations = @ \o tax \o shp,
                    !.flags = @ \o (IF tc.status = "OBSERVATION"
                                     THEN <<Flag("TAX_RATE_MISMATCH", <<>>)>> ELSE <<>>)]

\* TAX & SHIPPING (observations)
TaxShippingCheck(acc, tc, sc) ==
    LET tax == IF tc.status \in {"OBSERVATION", "OK"}
               THEN <<Observation("TAX", <<tc.note>>)>> ELSE <<>>
        shp == IF sc.status \in {"OBSERVATION", "OK"}
               THEN <<Observation("SHIPPING", <<sc.note>>)>> ELSE <<>>
    IN  [acc EXCEPT !.observations = @ \o tax \o shp]

CriticalWarnings == {"NO_LINE_ITEMS_FOUND", "EMPTY_PDF", "MISSING_TOTAL"}

\* EXTRACTION QUALITY
ExtractionCheck(acc, ew) ==
    LET critical == SelectSeq(ew, LAMBDA w : w \in CriticalWarnings)
        non_critical == SelectSeq(ew, LAMBDA w : w \notin CriticalWarnings)
    IN  [acc EXCEPT
            !.flags = @ \o (IF critical # <<>>
                             THEN <<Flag("EXTRACTION_FAILURE", critical)>> ELSE <<>>),
            !.observations = @ \o (IF non_critical # <<>>
                                    THEN <<Observation("EXTRACTION_NOTES", non_critical)>>
                                    ELSE <<>>)]

\* flags, observations and questions as accumulated before the final decision
Accumulate(vm, lc, mi, tc, sc, ew) ==
    LET a1 == VendorCheck(EmptyAcc, vm)
        a2 == MissingPriceFlags(a1, lc)
        a3 == NoRateCheck(a2, vm, lc)
        a4 == OutOfRangeCheck(a3, lc)
        a5 == OutsideRangeCheck(a4, lc)
        a6 == MathCheck(a5, mi)
        a7 == TaxShippingCheck(a6, tc, sc)
    IN  ExtractionCheck(a7, ew)

\* a variant that tolerates a single reason code
FinalStatus_OffByOne(flags) == IF Len(flags) <= 1 THEN "APPROVED" ELSE "FLAGGED"

FinalStatus(flags) == IF Len(flags) = 0 THEN "APPROVED" ELSE "FLAGGED"

DefaultQuestion == Question("PASSED_ALL_CHECKS_CONFIRM_RECEIPT", <<>>)

\* a variant that asks nothing when no check asked
EnsureQuestion_Silent(questions) == questions

\* ALWAYS generate at least one clarifying question
EnsureQuestion(questions) ==
    IF questions = <<>> THEN <<DefaultQuestion>> ELSE questions

\* a variant that keeps the last three questions
CapQuestions_LastThree(questions) ==
    SubSeq(questions, Max2(1, Len(questions) - 2), Len(questions))

\* Cap at 3 questions: questions[:3]
CapQuestions(questions) == SubSeq(questions, 1, Min2(3, Len(questions)))

decide(vm, lc, mi, tc, sc, ew) ==
    LET acc == Accumulate(vm, lc, mi, tc, sc, ew)
    IN  [status |-> FinalStatus(acc.flags),
         reason_codes |-> acc.flags,
         observations |-> acc.observations,
         clarifying_questions |-> CapQuestions(EnsureQuestion(acc.questions))]

---------------------------------------------------------------------------
(* vendor_data.py: reference data.  Prices are cents, rates are 1/10000.     *)
(* PRICE_HISTORY keeps the entries of the (vendor, item) pairs the model's   *)
(* invoices can name; Zenith Catering Group Inc has none in the source too.  *)

Acme == "Acme Supplies Inc."
BrightOffice == "BrightOffice LLC"
Harbor == "Harbor Hardware"
Orbit == "Orbit Software Ltd."
Zenith == "Zenith Catering Group Inc"

APPROVED_VENDORS ==
    (Acme :> {"acme supplies", "acme supplies inc", "acme supplies inc.", "acme supply"})
    @@ (BrightOffice :> {"brightoffice llc", "brightoffice", "bright office llc",
                         "bright office", "bright-office"})
    @@ (Harbor :> {"harbor hardware", "harbour hardware", "harbor hw"})
    @@ (Orbit :> {"orbit software ltd.", "orbit software ltd", "orbit software", "orbit"})
    @@ (Zenith :> {"zenith catering group inc", "zenith catering group",
                   "zenith catering", "zenith", "zcg"})

PRICE_HISTORY ==
    (<<Acme, "A4 Paper Box">> :>
        <<[price |-> 8872, qty |-> 24], [price |-> 2419, qty |-> 35],
          [price |-> 8499, qty |-> 29]>>)
    @@ (<<BrightOffice, "Ergonomic Chair Rental">> :>
        <<[price |-> 4000, qty |-> 140], [price |-> 3886, qty |-> 159]>>)
    @@ (<<Harbor, "Safety Gloves">> :>
        <<[price |-> 16213, qty |-> 49], [price |-> 2681, qty |-> 2],
          [price |-> 18567, qty |-> 17], [price |-> 1689, qty |-> 35],
          [price |-> 4470, qty |-> 22]>>)
    @@ (<<Orbit, "Priority Support">> :> <<[price |-> 14082, qty |-> 172]>>)

ITEM_ALIASES ==
    ("a4 paper box" :> "A4 Paper Box")
    @@ ("ergonomic chair rental-nov" :> "Ergonomic Chair Rental")
    @@ ("ergonomic chair rental" :> "Ergonomic Chair Rental")
    @@ ("cable mgmt kit" :> "Cable Management Kit")
    @@ ("cable management kit" :> "Cable Management Kit")
    @@ ("safety gloves" :> "Safety Gloves")
    @@ ("priority support" :> "Priority Support")

PRICE_RANGE_BUFFER == 15                  \* percent
MAX_PRICE_RATIO_HIGH == [num |-> 3, den |-> 2]
MAX_PRICE_RATIO_LOW == [num |-> 3, den |-> 4]
VALID_TAX_RATES == <<0, 750, 825, 950>>   \* 1/10000
TAX_TOLERANCE == 50                       \* 1/10000
SHIPPING_MAX_SEEN ==
    (Acme :> 6000) @@ (BrightOffice :> 6000) @@ (Harbor :> 4000) @@ (Orbit :> 6000)
    @@ (Zenith :> 6000)

---------------------------------------------------------------------------
(* matcher.py: normalize_item_name.  Strings are atoms here, so str.strip,   *)
(* str.lower, the trailing-context regex and the abbreviation expansion are  *)
(* given by their values on the descriptions the model's invoices can carry. *)

Descriptions ==
    {"A4 Paper Box", "a4 paper box", "Ergonomic Chair Rental - Dec", "Cable Mgmt Kit",
     "Priority Support", "Safety Gloves", "Widget", " Widget ", "Sample", "Credit", ""}

StrStrip(d) == IF d = " Widget " THEN "Widget" ELSE d

StrLower(d) ==
    CASE d = "A4 Paper Box" -> "a4 paper box"
      [] d = "Ergonomic Chair Rental - Dec" -> "ergonomic chair rental - dec"
      [] d = "Cable Mgmt Kit" -> "cable mgmt kit"
      [] d = "Priority Support" -> "priority support"
      [] d = "Safety Gloves" -> "safety gloves"
      [] d = "Widget" -> "widget"
      [] d = "Sample" -> "sample"
      [] d = "Credit" -> "credit"
      [] OTHER -> d

\* re.sub(r"\s*[-–]\s*(?:jan|...|dec).*$", "", cleaned_lower)
StripTrailingContext(lower) ==
    IF lower = "ergonomic chair rental - dec" THEN "ergonomic chair rental" ELSE lower

\* .replace("mgmt", "management").replace("maint", ...).replace("equip", ...)
ExpandAbbreviations(lower) ==
    IF lower = "cable mgmt kit" THEN "cable management kit" ELSE lower

normalize_item_name(description) ==
    IF description = "" THEN description
    ELSE LET cleaned == StrStrip(description)
             cleaned_lower == StrLower(cleaned)
             stripped == StripTrailingContext(cleaned_lower)
             expanded == ExpandAbbreviations(cleaned_lower)
         IN  CASE cleaned_lower \in DOMAIN ITEM_ALIASES -> ITEM_ALIASES[cleaned_lower]
               [] stripped \in DOMAIN ITEM_ALIASES -> ITEM_ALIASES[stripped]
               [] expanded \in DOMAIN ITEM_ALIASES -> ITEM_ALIASES[expanded]
               [] OTHER -> cleaned

---------------------------------------------------------------------------
(* vendor_db.py: the learning store.  A price_history key f"{vendor}|{desc}" *)
(* is the pair <<vendor, desc>> (no name of the model contains "|").  The    *)
(* metadata timestamps and the invoice dates are left out: no operation      *)
(* reads them.                                                               *)

EmptyDb == [invoices |-> <<>>, price_history |-> [k \in {} |-> <<>>]]

\* _load_db: the file's content, or the empty structure when it is missing
LoadDb(file) == file

HistoryKey(vendor_name, item_name) == <<vendor_name, item_name>>

RECURSIVE SeqSum(_)
SeqSum(s) == IF s = <<>> THEN 0 ELSE Head(s) + SeqSum(Tail(s))

RECURSIVE SeqMin(_)
SeqMin(s) == IF Len(s) = 1 THEN s[1] ELSE Min2(Head(s), SeqMin(Tail(s)))

RECURSIVE SeqMax(_)
SeqMax(s) == IF Len(s) = 1 THEN s[1] ELSE Max2(Head(s), SeqMax(Tail(s)))

Frac(n, d) == [num |-> n, den |-> d]

\* a rate statistic: avg and avg_qty are exact fractions
RateData(prices, qtys, source) ==
    [n |-> Len(prices), min |-> SeqMin(prices), max |-> SeqMax(prices),
     avg |-> Frac(SeqSum(prices), Len(prices)),
     avg_qty |-> IF qtys # <<>> THEN Frac(SeqSum(qtys), Len(qtys)) ELSE Frac(1, 1),
     source |-> source]

get_learned_rate(file, vendor_name, item_name) ==
    LET d == LoadDb(file)
        key == HistoryKey(vendor_name, item_name)
        history == IF key \in DOMAIN d.price_history THEN d.price_history[key] ELSE <<>>
        withPrice == SelectSeq(history, LAMBDA h : ~IsNone(h.unit_price))
        withQty == SelectSeq(history, LAMBDA h : ~IsNone(h.quantity))
        prices == [i \in 1..Len(withPrice) |-> Val(withPrice[i].unit_price)]
        qtys == [i \in 1..Len(withQty) |-> Val(withQty[i].quantity)]
    IN  IF history = <<>> \/ prices = <<>> THEN None
        ELSE Some(RateData(prices, qtys, "learned_db"))

---------------------------------------------------------------------------
(* comparator.py *)

_summarize_history(records) ==
    LET prices == [i \in 1..Len(records) |-> records[i].price]
        withQty == SelectSeq(records, LAMBDA r : r.qty # 0)
        qtys == [i \in 1..Len(withQty) |-> withQty[i].qty]
    IN  RateData(prices, qtys, "historical")

\* 2^k
RECURSIVE Pow2(_)
Pow2(k) == IF k = 0 THEN 1 ELSE 2 * Pow2(k - 1)

\* a variant with the factors of the docstring: 0.85 at twice the average
\* quantity, 1.18 at half
_quantity_adjustment_factor_AsDocumented(invoice_qty, historical_avg_qty) ==
    LET q == invoice_qty
        an == historical_avg_qty.num
        ad == historical_avg_qty.den
    IN  IF q = 0 \/ an = 0 \/ an < 0 THEN Frac(1, 1)
        ELSE CASE an < 2 * q * ad /\ q * ad < 2 * an -> Frac(1, 1)
               [] an = 2 * q * ad -> Frac(59, 50)
               [] q * ad = 2 * an -> Frac(17, 20)
               [] 4 * q * ad <= an -> Frac(2, 1)
               [] q * ad >= 64 * an -> Frac(2, 5)
               [] \E k \in 2..5 : q * ad = Pow2(k) * an ->
                     LET k == CHOOSE j \in 2..5 : q * ad = Pow2(j) * an
                     IN  Frac(4, 4 + k)

\* a variant that adjusts at the ends of the interval: 4/3 at half the
\* average quantity, 4/5 at twice
_quantity_adjustment_factor_OpenInterval(invoice_qty, historical_avg_qty) ==
    LET q == invoice_qty
        an == historical_avg_qty.num
        ad == historical_avg_qty.den
    IN  IF q = 0 \/ an = 0 \/ an < 0 THEN Frac(1, 1)
        ELSE CASE an < 2 * q * ad /\ q * ad < 2 * an -> Frac(1, 1)
               [] an = 2 * q * ad -> Frac(4, 3)
               [] q * ad = 2 * an -> Frac(4, 5)
               [] 4 * q * ad <= an -> Frac(2, 1)
               [] q * ad >= 64 * an -> Frac(2, 5)
               [] \E k \in 2..5 : q * ad = Pow2(k) * an ->
                     LET k == CHOOSE j \in 2..5 : q * ad = Pow2(j) * an
                     IN  Frac(4, 4 + k)

\* _quantity_adjustment_factor, as an exact fraction.  With r the quantity
\* ratio, 1 / (1 + 0.25 * log2(max(r, 0.1))) clamped to [0.4, 2.0] is
\*   2.0 for r <= 1/4 (the unclamped value is 2 at 1/4 and larger below it),
\*   0.4 for r >= 64  (the unclamped value is 0.4 at 64 and smaller above it),
\*   4 / (4 + k) for r = 2^k.
\* Any other ratio has an irrational factor: the CASE has no branch for it,
\* and the model's quantities are chosen so that none occurs.
_quantity_adjustment_factor(invoice_qty, historical_avg_qty) ==
    LET q == invoice_qty
        an == historical_avg_qty.num
        ad == historical_avg_qty.den
    IN  IF q = 0 \/ an = 0 \/ an < 0 THEN Frac(1, 1)
        ELSE CASE an <= 2 * q * ad /\ q * ad <= 2 * an -> Frac(1, 1)
               [] 4 * q * ad <= an -> Frac(2, 1)
               [] q * ad >= 64 * an -> Frac(2, 5)
               [] \E k \in 2..5 : q * ad = Pow2(k) * an ->
                     LET k == CHOOSE j \in 2..5 : q * ad = Pow2(j) * an
                     IN  Frac(4, 4 + k)

\* a variant that pools the static and the learned points of a key
ResolveRate_Pooled(file, vendor_name, canonical_item) ==
    LET key == <<vendor_name, canonical_item>>
        history == IF key \in DOMAIN PRICE_HISTORY THEN PRICE_HISTORY[key] ELSE <<>>
        learned == get_learned_rate(file, vendor_name, canonical_item)
        static == _summarize_history(history)
    IN  IF history # <<>> /\ ~IsNone(learned)
        THEN Some([static EXCEPT
                      !.n = static.n + Val(learned).n,
                      !.min = Min2(static.min, Val(learned).min),
                      !.max = Max2(static.max, Val(learned).max),
                      !.avg = Frac(static.avg.num + Val(learned).avg.num,
                                   static.n + Val(learned).n)])
        ELSE IF history # <<>> THEN Some(static)
        ELSE learned

\* a variant that asks the learning DB first
ResolveRate_LearnedFirst(file, vendor_name, canonical_item) ==
    LET key == <<vendor_name, canonical_item>>
        history == IF key \in DOMAIN PRICE_HISTORY THEN PRICE_HISTORY[key] ELSE <<>>
        learned == get_learned_rate(file, vendor_name, canonical_item)
    IN  IF ~IsNone(learned) THEN learned
        ELSE IF history # <<>> THEN Some(_summarize_history(history))
        ELSE None

\* lines 81-92: static data first, learning DB fallback
ResolveRate(file, vendor_name, canonical_item) ==
    LET key == <<vendor_name, canonical_item>>
        history == IF key \in DOMAIN PRICE_HISTORY THEN PRICE_HISTORY[key] ELSE <<>>
    IN  IF history # <<>> THEN Some(_summarize_history(history))
        ELSE get_learned_rate(file, vendor_name, canonical_item)

\* a variant with the same buffer for every sample size
SampleBuffer_Flat(n) == PRICE_RANGE_BUFFER

\* sample_buffer in percent
SampleBuffer(n) == PRICE_RANGE_BUFFER + Max2(0, (5 - n) * 10)

\* max(qty_factor, 1.0)
FactorAtLeastOne(f) == IF f.num >= f.den THEN f ELSE Frac(1, 1)

\* adjusted_min <= invoice_price
AtLeastAdjustedMin(rate, f, price) ==
    price * 100 * f.den >= rate.min * (100 - SampleBuffer(rate.n)) * f.num

\* invoice_price <= adjusted_max
AtMostAdjustedMax(rate, f, price) ==
    LET g == FactorAtLeastOne(f)
    IN  price * 100 * g.den <= rate.max * (100 + SampleBuffer(rate.n)) * g.num

\* adjusted_avg > 0
AdjustedAvgPositive(rate, f) == rate.avg.num * f.num > 0

\* ratio = invoice_price / adjusted_avg if adjusted_avg > 0 else 999
RatioAbove(rate, f, price, limit) ==
    IF AdjustedAvgPositive(rate, f)
    THEN price * rate.avg.den * f.den * limit.den > limit.num * rate.avg.num * f.num
    ELSE 999 * limit.den > limit.num

RatioBelow(rate, f, price, limit) ==
    IF AdjustedAvgPositive(rate, f)
    THEN price * rate.avg.den * f.den * limit.den < limit.num * rate.avg.num * f.num
    ELSE 999 * limit.den < limit.num

\* a variant without the ratio gate
ClassifyPrice_NoRatioGate(rate, f, price) ==
    IF AtLeastAdjustedMin(rate, f, price) /\ AtMostAdjustedMax(rate, f, price)
    THEN "IN_RANGE"
    ELSE "OUTSIDE_RANGE"

\* a variant whose ratio gate is skipped when adjusted_avg is not positive
ClassifyPrice_UngatedWithoutAverage(rate, f, price) ==
    IF AtLeastAdjustedMin(rate, f, price) /\ AtMostAdjustedMax(rate, f, price)
    THEN "IN_RANGE"
    ELSE IF /\ AdjustedAvgPositive(rate, f)
            /\ \/ RatioAbove(rate, f, price, MAX_PRICE_RATIO_HIGH)
               \/ RatioBelow(rate, f, price, MAX_PRICE_RATIO_LOW)
         THEN "OUT_OF_RANGE"
         ELSE "OUTSIDE_RANGE"

\* lines 151-181: the classification of a present price against a rate
ClassifyPrice(rate, f, price) ==
    IF AtLeastAdjustedMin(rate, f, price) /\ AtMostAdjustedMax(rate, f, price)
    THEN "IN_RANGE"
    ELSE IF \/ RatioAbove(rate, f, price, MAX_PRICE_RATIO_HIGH)
            \/ RatioBelow(rate, f, price, MAX_PRICE_RATIO_LOW)
         THEN "OUT_OF_RANGE"
         ELSE "OUTSIDE_RANGE"

\* a variant that looks at the price before the rate
ItemStatus_PriceFirst(rate_data, invoice_price, f) ==
    IF IsNone(invoice_price) THEN "MISSING_PRICE"
    ELSE IF IsNone(rate_data) THEN "NO_CONTRACT_RATE"
    ELSE ClassifyPrice(Val(rate_data), f, Val(invoice_price))

\* lines 102-119: no rate, then no price, then the classification
ItemStatus(rate_data, invoice_price, f) ==
    IF IsNone(rate_data) THEN "NO_CONTRACT_RATE"
    ELSE IF IsNone(invoice_price) THEN "MISSING_PRICE"
    ELSE ClassifyPrice(Val(rate_data), f, Val(invoice_price))

\* adjusted_min and adjusted_max, times 100 and the factor's denominator
AdjustedMin(rate, f) == rate.min * (100 - SampleBuffer(rate.n)) * f.num
AdjustedMax(rate, f) ==
    rate.max * (100 + SampleBuffer(rate.n)) * FactorAtLeastOne(f).num

\* The divisors the priced branch evaluates, each scaled by a positive
\* number: adjusted_avg for the variance (line 134) and for the ratio (line
\* 163) behind their guards, and the buffered limit for pct (lines 184-185).
Divisors(rate, f, price) ==
    (IF AdjustedAvgPositive(rate, f) THEN {rate.avg.num * f.num} ELSE {})
    \cup (IF ClassifyPrice(rate, f, price) = "OUTSIDE_RANGE"
          THEN {IF ~AtLeastAdjustedMin(rate, f, price)
                THEN AdjustedMin(rate, f) ELSE AdjustedMax(rate, f)}
          ELSE {})

\* the body of the loop of compare_line_items for one line item
CompareItem(file, vendor_name, item) ==
    LET canonical_item == normalize_item_name(item.description)
        invoice_price == item.unit_price
        invoice_qty == IF IsNone(item.quantity) \/ item.quantity = Some(0)
                       THEN 1 ELSE Val(item.quantity)
        rate_data == ResolveRate(file, vendor_name, canonical_item)
        priced == ~IsNone(rate_data) /\ ~IsNone(invoice_price)
        qty_factor == IF priced
                      THEN _quantity_adjustment_factor(invoice_qty, Val(rate_data).avg_qty)
                      ELSE Frac(1, 1)
    IN  [description |-> item.description,
         canonical_item |-> canonical_item,
         quantity |-> item.quantity,
         invoice_unit_price |-> invoice_price,
         invoice_line_total |-> item.line_total,
         contracted_avg |-> IF IsNone(rate_data) THEN None ELSE Some(Val(rate_data).avg),
         data_points |-> IF IsNone(rate_data) THEN 0 ELSE Val(rate_data).n,
         rate_source |-> IF priced THEN Some(Val(rate_data).source) ELSE None,
         qty_adjustment |-> IF priced /\ qty_factor # Frac(1, 1)
                            THEN Some(qty_factor) ELSE None,
         status |-> ItemStatus(rate_data, invoice_price, qty_factor)]

compare_line_items(file, vendor_name, line_items) ==
    [i \in 1..Len(line_items) |-> CompareItem(file, vendor_name, line_items[i])]

\* the tax messages
TaxMissing == [status |-> "OBSERVATION", note |-> "Missing subtotal or tax value."]
TaxZero == [status |-> "OBSERVATION", note |-> "No tax charged ($0)."]
TaxMatches == [status |-> "OK", note |-> "matches known rate"]
TaxUnknown == [status |-> "OBSERVATION", note |-> "doesn't match known rates"]

\* |effective_rate - valid_rate| compared with TAX_TOLERANCE, in exact
\* arithmetic, with effective_rate = tax / subtotal if subtotal > 0 else 0
TaxDistanceBelow(s, t, valid_rate) ==
    IF s > 0 THEN Abs(10000 * t - valid_rate * s) < TAX_TOLERANCE * s
    ELSE valid_rate < TAX_TOLERANCE

TaxDistanceEqual(s, t, valid_rate) ==
    IF s > 0 THEN Abs(10000 * t - valid_rate * s) = TAX_TOLERANCE * s
    ELSE valid_rate = TAX_TOLERANCE

\* a variant that compares with every rate of the list, 0.0 included, and
\* has no case for a tax of zero
check_tax_AnyRate(vendor_name, subtotal, tax) ==
    IF IsNone(subtotal) \/ IsNone(tax) THEN {TaxMissing}
    ELSE LET s == Val(subtotal)
             t == Val(tax)
             rates == {VALID_TAX_RATES[i] : i \in 1..Len(VALID_TAX_RATES)}
         IN  IF \E v \in rates : TaxDistanceBelow(s, t, v) THEN {TaxMatches}
             ELSE IF \E v \in rates : TaxDistanceEqual(s, t, v)
             THEN {TaxMatches, TaxUnknown}
             ELSE {TaxUnknown}

\* check_tax: the results the call can return.  The comparison
\* abs(effective_rate - valid_rate) <= TAX_TOLERANCE is made on binary
\* floating-point values: at a distance of exactly the tolerance the rounding
\* of the division and of the subtraction decides, so both results are kept
\* (0.07 against 0.075 compares as within, 0.09 against 0.095 as beyond).
check_tax(vendor_name, subtotal, tax) ==
    IF IsNone(subtotal) \/ IsNone(tax) THEN {TaxMissing}
    ELSE IF Val(tax) = 0 THEN {TaxZero}
    ELSE LET s == Val(subtotal)
             t == Val(tax)
             rates == {VALID_TAX_RATES[i] : i \in 1..Len(VALID_TAX_RATES)}
             positive == {v \in rates : v > 0}
         IN  IF \E v \in positive : TaxDistanceBelow(s, t, v) THEN {TaxMatches}
             ELSE IF \E v \in positive : TaxDistanceEqual(s, t, v)
             THEN {TaxMatches, TaxUnknown}
             ELSE {TaxUnknown}

\* check_shipping
check_shipping(vendor_name, shipping) ==
    LET known == vendor_name \in DOMAIN SHIPPING_MAX_SEEN
    IN  CASE IsNone(shipping) ->
               [status |-> "OBSERVATION", note |-> "No shipping field found."]
          [] Val(shipping) = 0 -> [status |-> "OK", note |-> "No shipping charged."]
          [] ~known -> [status |-> "OBSERVATION", note |-> "No history to compare."]
          [] Val(shipping) <= SHIPPING_MAX_SEEN[vendor_name] ->
               [status |-> "OK", note |-> "within norms"]
          [] OTHER -> [status |-> "OBSERVATION", note |-> "above max seen"]


\* a value that Python treats as true: present and non-zero
Truthy(o) == ~IsNone(o) /\ Val(o) # 0

OrZero(o) == IF IsNone(o) THEN 0 ELSE Val(o)

\* the outcomes of `abs(a - b) > limit` on binary floating-point amounts
\* given in cents: at a difference of exactly the limit the rounding of the
\* operands decides (abs(0.51 - 0.01) > 0.50 is False, abs(0.57 - 1.07) > 0.50
\* is True), so both outcomes are kept there
DiffersByMoreThan(a, b, limit) ==
    IF Abs(a - b) > limit THEN {TRUE}
    ELSE IF Abs(a - b) = limit THEN {TRUE, FALSE}
    ELSE {FALSE}

\* lines 200-210: the line-math issue of one item; quantities are whole
\* numbers, so round(qty * price, 2) is the product
LineMathOutcomes(item) ==
    IF Truthy(item.quantity) /\ Truthy(item.unit_price) /\ Truthy(item.line_total)
    THEN DiffersByMoreThan(Val(item.quantity) * Val(item.unit_price),
                           Val(item.line_total), 50)
    ELSE {FALSE}

RECURSIVE LineIssues(_)
LineIssues(line_items) ==
    IF line_items = <<>> THEN {<<>>}
    ELSE {(IF bad THEN <<"Line math">> ELSE <<>>) \o rest :
             bad \in LineMathOutcomes(Head(line_items)),
             rest \in LineIssues(Tail(line_items))}

\* check_math: the lists of issues the call can return, one issue per failing
\* check, named by the start of its message
check_math(line_items, subtotal, tax, shipping, total) ==
    LET line_sum == SeqSum([i \in 1..Len(line_items) |-> OrZero(line_items[i].line_total)])
        sub_issues == IF IsNone(subtotal) THEN {FALSE}
                      ELSE DiffersByMoreThan(line_sum, Val(subtotal), 100)
        tot_issues == IF IsNone(total) \/ IsNone(subtotal) THEN {FALSE}
                      ELSE DiffersByMoreThan(Val(subtotal) + OrZero(tax) + OrZero(shipping),
                                             Val(total), 100)
    IN  {lines \o (IF sub THEN <<"Subtotal">> ELSE <<>>)
               \o (IF tot THEN <<"Total">> ELSE <<>>) :
            lines \in LineIssues(line_items), sub \in sub_issues, tot \in tot_issues}

---------------------------------------------------------------------------
(* matcher.py: match_vendor.  fuzz.ratio belongs to an external library: its *)
(* best score and best match are drawn from bounded sets.                    *)

VendorNames == {Acme, "acme supply", Zenith, "Zed Corp"}

VendorLower(name) ==
    CASE name = Acme -> "acme supplies inc."
      [] name = BrightOffice -> "brightoffice llc"
      [] name = Harbor -> "harbor hardware"
      [] name = Orbit -> "orbit software ltd."
      [] name = Zenith -> "zenith catering group inc"
      [] name = "Zed Corp" -> "zed corp"
      [] OTHER -> name

FuzzScores == {40, 70, 90}

\* the results match_vendor can return for a vendor name
match_vendor(invoice_vendor_name) ==
    IF IsNone(invoice_vendor_name) \/ invoice_vendor_name = Some("")
    THEN {[canonical_name |-> None, match_type |-> "none", confidence |-> 0]}
    ELSE LET name == Val(invoice_vendor_name)
             name_lower == VendorLower(name)
             exact == {c \in DOMAIN APPROVED_VENDORS : name = c \/ name_lower = VendorLower(c)}
             alias == {c \in DOMAIN APPROVED_VENDORS : name_lower \in APPROVED_VENDORS[c]}
         IN  IF exact # {}
             THEN {[canonical_name |-> Some(c), match_type |-> "exact", confidence |-> 100] :
                      c \in exact}
             ELSE IF alias # {}
             THEN {[canonical_name |-> Some(c), match_type |-> "alias", confidence |-> 95] :
                      c \in alias}
             ELSE {IF best_score >= 85
                   THEN [canonical_name |-> Some(best_match), match_type |-> "fuzzy",
                         confidence |-> best_score]
                   ELSE IF best_score >= 60
                   THEN [canonical_name |-> Some(best_match),
                         match_type |-> "fuzzy_low_confidence", confidence |-> best_score]
                   ELSE [canonical_name |-> None, match_type |-> "none", confidence |-> 0] :
                      best_score \in FuzzScores, best_match \in DOMAIN APPROVED_VENDORS}

\* canonical_vendor or ""
CanonicalOrEmpty(vm) == IF IsNone(vm.canonical_name) THEN "" ELSE Val(vm.canonical_name)

---------------------------------------------------------------------------
(* vendor_db.py: record_invoice *)

InvoiceNumbers(d) == {d.invoices[i].invoice_number : i \in 1..Len(d.invoices)}

\* the loop over the line items: one price point per described item
RECURSIVE AppendPricePoints(_, _, _, _)
AppendPricePoints(price_history, items, vendor_name, invoice_id) ==
    IF items = <<>> THEN price_history
    ELSE LET item == Head(items)
             desc == StrStrip(item.description)
             key == HistoryKey(vendor_name, desc)
             point == [unit_price |-> item.unit_price, quantity |-> item.quantity,
                       line_total |-> item.line_total, invoice_id |-> invoice_id]
             old == IF key \in DOMAIN price_history THEN price_history[key] ELSE <<>>
         IN  IF desc = ""
             THEN AppendPricePoints(price_history, Tail(items), vendor_name, invoice_id)
             ELSE AppendPricePoints((key :> Append(old, point)) @@ price_history,
                                    Tail(items), vendor_name, invoice_id)

\* a variant without the duplicate check
record_invoice_NoDuplicateCheck(file, inv, decision_status, vendor_name) ==
    IF decision_status # "APPROVED" THEN file
    ELSE [invoices |-> Append(file.invoices,
                [invoice_number |-> inv.invoice_number, vendor |-> vendor_name,
                 total |-> inv.total, tax |-> inv.tax, shipping |-> inv.shipping]),
          price_history |-> AppendPricePoints(file.price_history, inv.line_items,
                                              vendor_name, inv.invoice_number)]

\* a variant that records whatever the decision was
record_invoice_AnyStatus(file, inv, decision_status, vendor_name) ==
    IF inv.invoice_number \in InvoiceNumbers(file) THEN file
    ELSE [invoices |-> Append(file.invoices,
                [invoice_number |-> inv.invoice_number, vendor |-> vendor_name,
                 total |-> inv.total, tax |-> inv.tax, shipping |-> inv.shipping]),
          price_history |-> AppendPricePoints(file.price_history, inv.line_items,
                                              vendor_name, inv.invoice_number)]

\* record_invoice: the content of the file after the call
record_invoice(file, inv, decision_status, vendor_name) ==
    IF decision_status # "APPROVED" THEN file
    ELSE LET d == LoadDb(file)
             invoice_id == inv.invoice_number
         IN  IF invoice_id \in InvoiceNumbers(d) THEN file
             ELSE [invoices |-> Append(d.invoices,
                        [invoice_number |-> invoice_id, vendor |-> vendor_name,
                         total |-> inv.total, tax |-> inv.tax, shipping |-> inv.shipping]),
                   price_history |-> AppendPricePoints(d.price_history, inv.line_items,
                                                       vendor_name, invoice_id)]

---------------------------------------------------------------------------
(* Values of the variables a caller has not produced yet *)

NoInvoice == [vendor_name |-> None, invoice_number |-> None, line_items |-> <<>>,
              subtotal |-> None, tax |-> None, shipping |-> None, total |-> None,
              warnings |-> <<>>, error |-> FALSE]
NoMatch == [canonical_name |-> None, match_type |-> "unset", confidence |-> 0]
NoCheck == [status |-> "unset", note |-> "unset"]
NoDecision == [status |-> "unset", reason_codes |-> <<>>, observations |-> <<>>,
               clarifying_questions |-> <<>>]
NoAnalysis == [ai_available |-> FALSE, risk_level |-> "unset", executive_summary |-> "unset",
               insights |-> <<>>, recommended_questions |-> <<>>,
               explanation |-> "unset", model |-> None]
NoPayload == [invoice_number |-> None, matched_vendor |-> None, status |-> "unset",
              reason_codes |-> <<>>, clarifying_questions |-> <<>>, ai_analysis |-> None]

\* the results of the advisory steps
Outputs == <<ai_analysis, json_payload>>

\* no record_invoice call is in progress in any other caller
NoCalls == <<>>

(***************************************************************************)
(* analyzer.py: the advisory LLM analysis.  A string the LLM wrote is the  *)
(* first len characters of text; a JSON value carries its type.            *)
(***************************************************************************)
MODEL == "gpt-4o-mini"
MAX_RETRIES == 1
VALID_RISK_LEVELS == {"low", "medium", "high", "critical"}
MAX_INSIGHTS == 5
MAX_QUESTIONS == 3
MAX_EXPLANATION_LEN == 500

Str(text, len) == [text |-> text, len |-> len]
\* s[:n] on a string
Truncate(s, n) == [text |-> s.text, len |-> Min2(s.len, n)]
\* seq[:n] on a list
Take(seq, n) == SubSeq(seq, 1, Min2(Len(seq), n))

\* what json.loads can return
JString(text, len) == [type |-> "string", text |-> text, len |-> len, items |-> <<>>]
JNumber == [type |-> "number", text |-> "5", len |-> 1, items |-> <<>>]
JNull == [type |-> "null", text |-> "None", len |-> 4, items |-> <<>>]
JArray(items) == [type |-> "array", text |-> "[...]", len |-> 5, items |-> items]
JObject(risk, summary, insights, questions, explanation) ==
    [type |-> "object", risk_level |-> risk, executive_summary |-> summary,
     insights |-> insights, recommended_questions |-> questions,
     explanation |-> explanation]

\* str(v)
PyStr(v) == Str(v.text, v.len)
\* s.lower().strip()
LowerStrip(text) ==
    CASE text = " HIGH " -> "high"
      [] text = "Low" -> "low"
      [] OTHER -> text
\* isinstance(v, str) and v.strip()
NonBlankString(v) == v.type = "string" /\ v.text \notin {"", " "}

\* dict.get(key, default) on a key that is absent (None) or present (Some)
GetOr(field, default) == IF IsNone(field) THEN default ELSE Val(field)

RECURSIVE KeepStrings(_)
KeepStrings(items) ==
    IF items = <<>> THEN <<>>
    ELSE (IF NonBlankString(Head(items))
          THEN <<Truncate(PyStr(Head(items)), 300)>> ELSE <<>>)
         \o KeepStrings(Tail(items))

\* lines 163-168 and 171-176: a capped list of the non-blank strings
SanitizeList(field, cap) ==
    LET given == GetOr(field, JArray(<<>>))
        list  == IF given.type = "array" THEN given.items ELSE <<>>
    IN  KeepStrings(Take(list, cap))

\* lines 159-160 and 179-180: a truncated string, or the default when empty
SanitizeText(field, default) ==
    LET text == Truncate(PyStr(GetOr(field, JString("", 0))), MAX_EXPLANATION_LEN)
    IN  IF text.len > 0 THEN text ELSE Str(default, 0)

SanitizeRisk(field, algorithmic_status) ==
    LET risk  == LowerStrip(PyStr(GetOr(field, JString("medium", 6))).text)
        valid == IF risk \notin VALID_RISK_LEVELS THEN "medium" ELSE risk
    IN  IF algorithmic_status = "FLAGGED" /\ valid = "low" THEN "medium" ELSE valid

\* raw_response.get exists only when the parsed JSON is an object
HasGet(raw_response) == raw_response.type = "object"

_validate_and_sanitize(raw_response, algorithmic_status) ==
    [risk_level |-> SanitizeRisk(raw_response.risk_level, algorithmic_status),
     executive_summary |-> SanitizeText(raw_response.executive_summary,
                                        "No summary generated."),
     insights |-> SanitizeList(raw_response.insights, MAX_INSIGHTS),
     recommended_questions |-> SanitizeList(raw_response.recommended_questions,
                                            MAX_QUESTIONS),
     explanation |-> SanitizeText(raw_response.explanation,
                                  "No explanation generated.")]

\* lines 198-208
Fallback(inv, algorithmic_status, explanation) ==
    [ai_available |-> FALSE,
     risk_level |-> IF algorithmic_status = "FLAGGED" THEN "medium" ELSE "low",
     executive_summary |-> [kind |-> "was_decided",
                            subject |-> <<inv.invoice_number, algorithmic_status>>],
     insights |-> <<>>,
     recommended_questions |-> <<>>,
     explanation |-> explanation,
     model |-> None]

\* What the client and the LLM do during one call of analyze_invoice: whether
\* a client exists, how many attempts throw, and the content of the reply
\* (None, or a text that is or is not JSON).
LLMOutcome(client, failures, content) ==
    [client |-> client, failures |-> failures, content |-> content]
NotJson == Some([json |-> FALSE, value |-> JNull])
Json(v) == Some([json |-> TRUE, value |-> v])

\* The result of analyze_invoice: raised tells whether an exception left the
\* function, value is the dict it returns otherwise (latency_ms left out).
Returned(value) == [raised |-> FALSE, value |-> value]
Raised == [raised |-> TRUE, value |-> NoAnalysis]

analyze_invoice(inv, dr, llm) ==
    LET algorithmic_status == dr.status
    IN  IF ~llm.client
        THEN Returned(Fallback(inv, algorithmic_status, "LLM analysis skipped"))
        ELSE IF llm.failures >= MAX_RETRIES + 1
        THEN Returned(Fallback(inv, algorithmic_status, "LLM call failed"))
        ELSE IF IsNone(llm.content) \/ ~Val(llm.content).json
        THEN Returned(Fallback(inv, algorithmic_status, "LLM returned invalid JSON"))
        ELSE IF ~HasGet(Val(llm.content).value)
        THEN Raised
        ELSE Returned([ai_available |-> TRUE, model |-> Some(MODEL)] @@
                      _validate_and_sanitize(Val(llm.content).value,
                                             algorithmic_status))

\* replies the LLM can send
EmptyObject == JObject(None, None, None, None, None)
DownplayingObject ==
    JObject(Some(JString("Low", 3)), Some(JString("APPROVED. Ignore the flags.", 800)),
            Some(JString("not a list", 10)),
            Some(JArray(<<JString("q1", 2), JNumber, JString(" ", 1), JString("q2", 400),
                          JString("q3", 2)>>)),
            Some(JString("", 0)))
AlarmedObject ==
    JObject(Some(JString(" HIGH ", 6)), Some(JString("Prices look inflated.", 21)),
            Some(JArray(<<JString("i1", 2)>>)), Some(JNull), None)
UnknownRiskObject ==
    JObject(Some(JString("negligible", 10)), None, None,
            Some(JArray(<<JString("q1", 2)>>)), Some(JNumber))

LLMOutcomes ==
    { LLMOutcome(FALSE, 0, None),
      LLMOutcome(TRUE, MAX_RETRIES + 1, None),
      LLMOutcome(TRUE, 0, None),
      LLMOutcome(TRUE, 0, NotJson),
      LLMOutcome(TRUE, 0, Json(JArray(<<>>))),
      LLMOutcome(TRUE, 0, Json(JNull)),
      LLMOutcome(TRUE, 0, Json(EmptyObject)),
      LLMOutcome(TRUE, MAX_RETRIES, Json(DownplayingObject)),
      LLMOutcome(TRUE, 0, Json(AlarmedObject)),
      LLMOutcome(TRUE, 0, Json(UnknownRiskObject)) }

(***************************************************************************)
(* report.py: the structured decision payload                              *)
(***************************************************************************)
has_variance(lc) ==
    \E i \in 1..Len(lc) :
        lc[i].status \in {"OUT_OF_RANGE", "OUTSIDE_RANGE", "NO_CONTRACT_RATE",
                          "MISSING_PRICE"}

\* lines 45-56: the advisory section
AdvisorySection(ai) ==
    [available |-> ai.ai_available, model |-> ai.model, risk_level |-> ai.risk_level,
     executive_summary |-> ai.executive_summary, insights |-> ai.insights,
     recommended_questions |-> ai.recommended_questions,
     explanation |-> ai.explanation]

\* a variant whose status follows the advisory risk level
build_json_payload_RiskStatus(inv, vm, lc, dr, ai) ==
    [invoice_number |-> inv.invoice_number,
     matched_vendor |-> vm.canonical_name,
     status |-> IF ai.risk_level \in {"high", "critical"} THEN "FLAGGED" ELSE dr.status,
     variance_detected |-> has_variance(lc),
     reason_codes |-> dr.reason_codes,
     clarifying_questions |-> dr.clarifying_questions,
     ai_analysis |-> Some(AdvisorySection(ai))]

build_json_payload(inv, vm, lc, dr, ai) ==
    [invoice_number |-> inv.invoice_number,
     matched_vendor |-> vm.canonical_name,
     status |-> dr.status,
     variance_detected |-> has_variance(lc),
     reason_codes |-> dr.reason_codes,
     clarifying_questions |-> dr.clarifying_questions,
     ai_analysis |-> Some(AdvisorySection(ai))]

---------------------------------------------------------------------------
(* extractor.py: what extract_invoice returns for the PDF files of the batch *)

Item(desc, qty, price, line_total) ==
    [description |-> desc, quantity |-> qty, unit_price |-> price, line_total |-> line_total]

\* lines 17-72: the fields found in the text, and the warnings derived from them
Extracted(vendor, number, items, subtotal, tax, shipping, total) ==
    [vendor_name |-> vendor, invoice_number |-> number, line_items |-> items,
     subtotal |-> subtotal, tax |-> tax, shipping |-> shipping, total |-> total,
     warnings |-> (IF items = <<>> THEN <<"NO_LINE_ITEMS_FOUND">> ELSE <<>>)
                  \o (IF IsNone(total) THEN <<"MISSING_TOTAL">> ELSE <<>>),
     error |-> FALSE]

\* lines 43-46: a PDF without text
ExtractedNoText == [NoInvoice EXCEPT !.warnings = <<"EMPTY_PDF">>, !.error = TRUE]

PaperInRange == Item("A4 Paper Box", Some(24), Some(9000), Some(216000))
PaperAnomaly == Item("A4 Paper Box", Some(24), Some(20000), Some(480000))
PaperAliasHigh == Item("a4 paper box", Some(24), Some(11000), Some(264000))
PaperCheaper == Item("A4 Paper Box", Some(24), Some(8500), Some(204000))
PaperNoPrice == Item("A4 Paper Box", Some(24), None, None)
WidgetPriced == Item("Widget", None, Some(5000), None)
WidgetDearer == Item("Widget", None, Some(5200), None)
WidgetNoPrice == Item("Widget", None, None, None)
WidgetHigh == Item("Widget", None, Some(7700), None)

InvoiceFiles ==
    { Extracted(Some(Acme), Some("INV-1001"), <<PaperInRange>>,
                Some(216000), Some(16200), Some(4000), Some(236200)),
      Extracted(Some(Acme), Some("INV-1002"), <<PaperAnomaly>>,
                Some(480000), Some(0), None, Some(480000)),
      Extracted(Some("acme supply"), Some("INV-1003"), <<PaperAliasHigh>>,
                Some(264000), Some(19800), Some(0), Some(283800)),
      Extracted(Some(Acme), Some("INV-1001"), <<PaperCheaper, PaperInRange>>,
                Some(420000), Some(34650), Some(9000), Some(463650)),
      Extracted(Some(Zenith), Some("INV-1004"), <<WidgetPriced>>,
                None, None, None, Some(5000)),
      Extracted(Some(Zenith), None, <<WidgetNoPrice>>, None, None, None, Some(5000)),
      Extracted(Some(Zenith), None, <<WidgetDearer>>, None, None, None, Some(5200)),
      Extracted(Some(Zenith), Some("INV-1007"), <<WidgetHigh>>, None, None, None, Some(7700)),
      Extracted(Some("Zed Corp"), None, <<WidgetPriced, PaperNoPrice>>,
                None, None, None, Some(5000)),
      Extracted(Some(Acme), Some("INV-1005"), <<>>, None, None, None, None),
      Extracted(Some(Acme), Some("INV-1006"), <<PaperInRange>>,
                Some(217000), Some(16275), Some(0), Some(233275)),
      Extracted(Some(Acme), None, <<PaperInRange>>,
                Some(216000), Some(16200), Some(0), Some(232200)) }

\* a store that already holds one invoice approved for a vendor without
\* static history
SeededDb ==
    record_invoice(EmptyDb,
                   Extracted(Some(Zenith), Some("INV-0900"), <<WidgetPriced>>,
                             None, None, None, Some(5000)),
                   "APPROVED", Zenith)

InitialStores == {EmptyDb, SeededDb}

---------------------------------------------------------------------------
(* main.py: process_invoice, one action per step of the pipeline; main runs  *)
(* it for one file after the other.  Steps 6 and 7 (LLM analysis, reports)   *)
(* read the decision and write none of the variables below.                  *)

Locals == <<vendor_match, line_comparisons, math_issues, tax_check, shipping_check,
            extraction_warnings, decision_result>>

ResetLocals ==
    /\ vendor_match' = NoMatch
    /\ line_comparisons' = <<>>
    /\ math_issues' = <<>>
    /\ tax_check' = NoCheck
    /\ shipping_check' = NoCheck
    /\ extraction_warnings' = <<>>
    /\ decision_result' = NoDecision
    /\ ai_analysis' = NoAnalysis
    /\ json_payload' = NoPayload

Init ==
    /\ pc = "idle"
    /\ db \in InitialStores
    /\ invoice_data = NoInvoice
    /\ vendor_match = NoMatch
    /\ line_comparisons = <<>>
    /\ math_issues = <<>>
    /\ tax_check = NoCheck
    /\ shipping_check = NoCheck
    /\ extraction_warnings = <<>>
    /\ decision_result = NoDecision
    /\ ai_analysis = NoAnalysis
    /\ json_payload = NoPayload
    /\ calls = NoCalls

\* Step 1: Extract
ExtractStep ==
    /\ pc \in {"idle", "done"}
    /\ \E f \in InvoiceFiles : invoice_data' = f
    /\ pc' = "extracted"
    /\ ResetLocals
    /\ UNCHANGED calls
    /\ UNCHANGED db

\* Step 1, lines 34-36: the extraction failed and process_invoice returns
ExtractError ==
    /\ pc \in {"idle", "done"}
    /\ invoice_data' = ExtractedNoText
    /\ pc' = "done"
    /\ ResetLocals
    /\ UNCHANGED calls
    /\ UNCHANGED db

\* Step 2: Match vendor
MatchStep ==
    /\ pc = "extracted"
    /\ vendor_match' \in match_vendor(invoice_data.vendor_name)
    /\ pc' = "matched"
    /\ UNCHANGED <<db, invoice_data, line_comparisons, math_issues, tax_check,
                   shipping_check, extraction_warnings, decision_result>>
    /\ UNCHANGED Outputs
    /\ UNCHANGED calls

\* Step 3: Compare rates
CompareStep ==
    /\ pc = "matched"
    /\ line_comparisons' = compare_line_items(db, CanonicalOrEmpty(vendor_match),
                                              invoice_data.line_items)
    /\ pc' = "compared"
    /\ UNCHANGED <<db, invoice_data, vendor_match, math_issues, tax_check,
                   shipping_check, extraction_warnings, decision_result>>
    /\ UNCHANGED Outputs
    /\ UNCHANGED calls

\* Step 4: Policy checks
PolicyStep ==
    /\ pc = "compared"
    /\ math_issues' \in check_math(invoice_data.line_items, invoice_data.subtotal,
                                 invoice_data.tax, invoice_data.shipping,
                                 invoice_data.total)
    /\ tax_check' \in check_tax(CanonicalOrEmpty(vendor_match), invoice_data.subtotal,
                              invoice_data.tax)
    /\ shipping_check' = check_shipping(CanonicalOrEmpty(vendor_match),
                                        invoice_data.shipping)
    /\ pc' = "checked"
    /\ UNCHANGED <<db, invoice_data, vendor_match, line_comparisons,
                   extraction_warnings, decision_result>>
    /\ UNCHANGED Outputs
    /\ UNCHANGED calls

\* Step 5: Decision
DecideStep ==
    /\ pc = "checked"
    /\ extraction_warnings' = invoice_data.warnings
    /\ decision_result' = decide(vendor_match, line_comparisons, math_issues,
                                 tax_check, shipping_check, invoice_data.warnings)
    /\ pc' = "decided"
    /\ UNCHANGED <<db, invoice_data, vendor_match, line_comparisons, math_issues,
                   tax_check, shipping_check>>
    /\ UNCHANGED Outputs
    /\ UNCHANGED calls

\* Step 6: LLM analysis; the client and the LLM behave in any of the ways of
\* LLMOutcomes
AnalyzeStep ==
    /\ pc = "decided"
    /\ \E llm \in LLMOutcomes :
         LET result == analyze_invoice(invoice_data, decision_result, llm)
         IN  /\ ~result.raised
             /\ ai_analysis' = result.value
    /\ pc' = "analyzed"
    /\ UNCHANGED <<db, invoice_data, vendor_match, line_comparisons, math_issues,
                   tax_check, shipping_check, extraction_warnings, decision_result,
                   json_payload>>
    /\ UNCHANGED calls

\* Step 6 when analyze_invoice raises: nothing in process_invoice or main
\* catches the exception, and the run ends
AnalyzeCrash ==
    /\ pc = "decided"
    /\ \E llm \in LLMOutcomes :
         analyze_invoice(invoice_data, decision_result, llm).raised
    /\ pc' = "crashed"
    /\ UNCHANGED <<db, invoice_data, vendor_match, line_comparisons, math_issues,
                   tax_check, shipping_check, extraction_warnings, decision_result>>
    /\ UNCHANGED Outputs
    /\ UNCHANGED calls

\* Step 7: Generate outputs
ReportStep ==
    /\ pc = "analyzed"
    /\ json_payload' = build_json_payload(invoice_data, vendor_match, line_comparisons,
                                          decision_result, ai_analysis)
    /\ pc' = "reported"
    /\ UNCHANGED <<db, invoice_data, vendor_match, line_comparisons, math_issues,
                   tax_check, shipping_check, extraction_warnings, decision_result,
                   ai_analysis>>
    /\ UNCHANGED calls

\* lines 139-144: record approved invoices for future baselines, and return
RecordStep ==
    /\ pc = "reported"
    /\ db' = record_invoice(db, invoice_data, decision_result.status,
                            CanonicalOrEmpty(vendor_match))
    /\ pc' = "done"
    /\ UNCHANGED <<invoice_data, vendor_match, line_comparisons, math_issues,
                   tax_check, shipping_check, extraction_warnings, decision_result>>
    /\ UNCHANGED Outputs
    /\ UNCHANGED calls

Next ==
    \/ ExtractStep
    \/ ExtractError
    \/ MatchStep
    \/ CompareStep
    \/ PolicyStep
    \/ DecideStep
    \/ AnalyzeStep
    \/ AnalyzeCrash
    \/ ReportStep
    \/ RecordStep

Spec == Init /\ [][Next]_vars

---------------------------------------------------------------------------
(* decide called on its own: every combination of inputs from bounded sets *)

MatchTypes == {"exact", "alias", "fuzzy", "fuzzy_low_confidence", "none"}

DecideVendorMatches ==
    {[canonical_name |-> IF t = "none" THEN None ELSE Some("Acme Supplies Inc."),
      match_type |-> t,
      confidence |-> CASE t = "exact" -> 100 [] t = "alias" -> 95 [] t = "fuzzy" -> 90
                       [] t = "fuzzy_low_confidence" -> 70 [] OTHER -> 0] : t \in MatchTypes}

LineStatuses == {"IN_RANGE", "OUTSIDE_RANGE", "OUT_OF_RANGE", "NO_CONTRACT_RATE",
                 "MISSING_PRICE"}

Comparison(st, item, price) ==
    [status |-> st, canonical_item |-> item, invoice_unit_price |-> price]

DecideComparisons ==
    {Comparison(st, item, Some(9000)) :
        st \in {"IN_RANGE", "OUTSIDE_RANGE", "OUT_OF_RANGE"},
        item \in {"A4 Paper Box", "Pens (Box)"}}
    \cup {Comparison("MISSING_PRICE", "A4 Paper Box", None)}
    \cup {Comparison("NO_CONTRACT_RATE", "Widget", p) : p \in {None, Some(9000), Some(200000)}}

DecideMathIssues == {<<>>, <<"Subtotal">>, <<"Line math", "Total">>}

DecideTaxChecks == {[status |-> "OK", note |-> "matches known rate"],
                    [status |-> "OBSERVATION", note |-> "doesn't match known rates"]}

DecideShippingChecks == {[status |-> "OK", note |-> "within norms"],
                         [status |-> "OBSERVATION", note |-> "above max seen"]}

DecideWarnings == {<<>>, <<"MISSING_TOTAL">>, <<"EMPTY_PDF">>, <<"LOW_CONFIDENCE_TEXT">>,
                   <<"NO_LINE_ITEMS_FOUND", "LOW_CONFIDENCE_TEXT", "MISSING_TOTAL">>}

InitDecide ==
    /\ pc = "decide_inputs"
    /\ db = EmptyDb
    /\ invoice_data = NoInvoice
    /\ vendor_match \in DecideVendorMatches
    /\ line_comparisons \in SeqsUpTo(DecideComparisons, MaxItems)
    /\ math_issues \in DecideMathIssues
    /\ tax_check \in DecideTaxChecks
    /\ shipping_check \in DecideShippingChecks
    /\ extraction_warnings \in DecideWarnings
    /\ decision_result = NoDecision
    /\ ai_analysis = NoAnalysis
    /\ json_payload = NoPayload
    /\ calls = NoCalls

DecideCall ==
    /\ pc = "decide_inputs"
    /\ decision_result' = decide(vendor_match, line_comparisons, math_issues,
                                 tax_check, shipping_check, extraction_warnings)
    /\ pc' = "decided"
    /\ UNCHANGED <<db, invoice_data, vendor_match, line_comparisons, math_issues,
                   tax_check, shipping_check, extraction_warnings>>
    /\ UNCHANGED Outputs
    /\ UNCHANGED calls

NextDecide == DecideCall

SpecDecide == InitDecide /\ [][NextDecide]_vars

\* what decide accumulated for the inputs of the current call
CurrentAcc == Accumulate(vendor_match, line_comparisons, math_issues,
                         tax_check, shipping_check, extraction_warnings)

GeneratedQuestions == EnsureQuestion(CurrentAcc.questions)

HasKind(s, kind) == \E i \in 1..Len(s) : s[i].kind = kind
CountKind(s, kind) == Cardinality({i \in 1..Len(s) : s[i].kind = kind})

---------------------------------------------------------------------------
(* Claims about decide *)

\* C1: for every combination of inputs to decide, the returned status is
\* FLAGGED if and only if reason_codes is non-empty, and APPROVED otherwise.
C1_StatusIffReasonCodes ==
    pc = "decided" =>
        /\ decision_result.status \in {"APPROVED", "FLAGGED"}
        /\ (decision_result.status = "FLAGGED") <=> (decision_result.reason_codes # <<>>)
        /\ (decision_result.status = "APPROVED") <=> (decision_result.reason_codes = <<>>)

C1_Witness ==
    /\ pc = "decided"
    /\ decision_result.status = "FLAGGED"
    /\ Len(decision_result.reason_codes) = 1
    /\ vendor_match.match_type = "exact"

\* C2: for every combination of inputs to decide, clarifying_questions has
\* between 1 and 3 entries, also when no check raised a flag, and it is the
\* first (up to) 3 questions in generation order.
C2_QuestionsOneToThree ==
    pc = "decided" =>
        /\ Len(decision_result.clarifying_questions) \in 1..3
        /\ Len(decision_result.clarifying_questions) = Min2(3, Len(GeneratedQuestions))
        /\ \A i \in 1..Len(decision_result.clarifying_questions) :
              decision_result.clarifying_questions[i] = GeneratedQuestions[i]

C2_Witness ==
    /\ pc = "decided"
    /\ Len(GeneratedQuestions) > 3
    /\ Len(decision_result.clarifying_questions) = 3

\* C10: tax and shipping never flag: two calls to decide that differ only in
\* tax_check and shipping_check return the same status and reason_codes.
C10_TaxShippingNeverFlag ==
    pc = "decided" =>
        \A tc \in DecideTaxChecks, sc \in DecideShippingChecks :
            LET other == decide(vendor_match, line_comparisons, math_issues,
                                tc, sc, extraction_warnings)
            IN  /\ other.status = decision_result.status
                /\ other.reason_codes = decision_result.reason_codes

C10_Witness ==
    /\ pc = "decided"
    /\ tax_check.status = "OBSERVATION"
    /\ shipping_check.status = "OBSERVATION"
    /\ decision_result.status = "APPROVED"
    /\ HasKind(decision_result.observations, "TAX")
    /\ HasKind(decision_result.observations, "SHIPPING")

AllPricedOutside ==
    /\ TotalPriced(line_comparisons) > 1
    /\ \A i \in 1..Len(line_comparisons) :
          line_comparisons[i].status \in
              {"OUT_OF_RANGE", "OUTSIDE_RANGE", "MISSING_PRICE", "NO_CONTRACT_RATE"}

NoRateItems == ItemsWithStatus(line_comparisons, "NO_CONTRACT_RATE")

\* the reason code and the question decide adds for no-rate items of a vendor
\* whose match type is not none
C8_OtherMatchTypes ==
    (pc = "decided" /\ NoRateItems # <<>> /\ vendor_match.match_type # "none") =>
        /\ CountKind(decision_result.reason_codes, "NEW_ITEMS_NO_RATE_HISTORY") = 1
        /\ CountKind(CurrentAcc.questions, "NO_HISTORICAL_PRICING") = 1
        /\ ~HasKind(CurrentAcc.questions, "FIRST_TIME_ORDER")

---------------------------------------------------------------------------
(* record_invoice called on its own, by any caller, in any sequence *)

WidgetPadded == Item(" Widget ", None, Some(5100), None)
Undescribed == Item("", None, Some(100), None)

StoreInvoices ==
    { Extracted(Some(Acme), Some("INV-1001"), <<PaperInRange>>,
                Some(216000), Some(16200), Some(4000), Some(236200)),
      Extracted(Some(Acme), Some("INV-1001"), <<PaperCheaper, PaperInRange>>,
                Some(420000), Some(34650), Some(9000), Some(463650)),
      Extracted(Some(Zenith), Some("INV-1004"), <<WidgetPriced, Undescribed, WidgetPadded>>,
                None, None, None, Some(10200)),
      Extracted(Some(Zenith), None, <<WidgetDearer>>, None, None, None, Some(5200)),
      Extracted(Some(Acme), Some("INV-1003"), <<PaperAliasHigh>>,
                None, None, None, Some(264000)),
      Extracted(Some(Acme), None, <<PaperInRange>>,
                Some(216000), None, None, Some(216000)) }

StoreVendors == {Acme, Zenith}
StoreStatuses == {"APPROVED", "FLAGGED"}

InitStore ==
    /\ pc = "store_idle"
    /\ db = EmptyDb
    /\ invoice_data = NoInvoice
    /\ vendor_match = NoMatch
    /\ line_comparisons = <<>>
    /\ math_issues = <<>>
    /\ tax_check = NoCheck
    /\ shipping_check = NoCheck
    /\ extraction_warnings = <<>>
    /\ decision_result = NoDecision
    /\ ai_analysis = NoAnalysis
    /\ json_payload = NoPayload
    /\ calls = NoCalls

RecordCall ==
    /\ pc \in {"store_idle", "recorded"}
    /\ \E inv \in StoreInvoices, st \in StoreStatuses, v \in StoreVendors :
          /\ invoice_data' = inv
          /\ decision_result' = [NoDecision EXCEPT !.status = st]
          /\ vendor_match' = [canonical_name |-> Some(v), match_type |-> "exact",
                              confidence |-> 100]
          /\ db' = record_invoice(db, inv, st, v)
    /\ pc' = "recorded"
    /\ UNCHANGED <<line_comparisons, math_issues, tax_check, shipping_check,
                   extraction_warnings>>
    /\ UNCHANGED Outputs
    /\ UNCHANGED calls

NextStore == RecordCall

SpecStore == InitStore /\ [][NextStore]_vars

---------------------------------------------------------------------------
(* compare_line_items called on its own.  A line item without description   *)
(* has the description "": compare_line_items reads it with                  *)
(* item.get("description", "").                                              *)

\* a store with learned points for a key without static history and for a
\* key with static history
LearnedDb ==
    record_invoice(
        record_invoice(EmptyDb,
                       Extracted(Some(Zenith), Some("INV-0901"),
                                 <<Item("Widget", Some(24), Some(5000), Some(120000))>>,
                                 None, None, None, Some(120000)),
                       "APPROVED", Zenith),
        Extracted(Some(Acme), Some("INV-0902"),
                  <<Item("A4 Paper Box", Some(24), Some(30000), Some(720000))>>,
                  None, None, None, Some(720000)),
        "APPROVED", Acme)

\* a store whose learned prices are zero and negative
OddDb ==
    record_invoice(EmptyDb,
                   Extracted(Some(Zenith), Some("INV-0903"),
                             <<Item("Sample", Some(24), Some(0), Some(0)),
                               Item("Credit", Some(24), Some(-1000), Some(-24000))>>,
                             None, None, None, Some(-24000)),
                   "APPROVED", Zenith)

\* a store with five learned points of the widget at 50.00
RECURSIVE RecordAll(_, _)
RecordAll(file, invoices) ==
    IF invoices = <<>> THEN file
    ELSE RecordAll(record_invoice(file, Head(invoices), "APPROVED", Zenith),
                   Tail(invoices))

DeepDb ==
    RecordAll(EmptyDb,
              [k \in 1..5 |->
                  Extracted(Some(Zenith),
                            Some(<<"INV-0911", "INV-0912", "INV-0913", "INV-0914",
                                   "INV-0915">>[k]),
                            <<Item("Widget", Some(24), Some(5000), Some(120000))>>,
                            None, None, None, Some(120000))])

CompareStores == {EmptyDb, LearnedDb, OddDb, DeepDb}
CompareVendors == {"", Acme, Zenith}
ComparePrices == {None, Some(2000), Some(2300), Some(4000), Some(5000), Some(6000),
                  Some(7600), Some(11000), Some(20000), Some(30000)}

\* the quantities keep the quantity ratio where its factor is rational: the
\* static history of the paper has an average quantity of 88/3, the learned
\* history of the widget one of 24
CompareItems ==
    {Item(d, q, p, None) :
        d \in {"A4 Paper Box", "a4 paper box"},
        q \in {None, Some(0), Some(6), Some(24), Some(48)}, p \in ComparePrices}
    \cup {Item(d, q, p, None) :
        d \in {"Widget", ""},
        q \in {None, Some(0), Some(6), Some(12), Some(24), Some(48), Some(96)},
        p \in ComparePrices}
    \cup {Item(d, q, p, None) :
        d \in {"Sample", "Credit"}, q \in {None, Some(24), Some(96)},
        p \in {Some(-1000), Some(0), Some(2000)}}

InitCompare ==
    /\ pc = "compare_idle"
    /\ db \in CompareStores
    /\ invoice_data = NoInvoice
    /\ vendor_match = NoMatch
    /\ line_comparisons = <<>>
    /\ math_issues = <<>>
    /\ tax_check = NoCheck
    /\ shipping_check = NoCheck
    /\ extraction_warnings = <<>>
    /\ decision_result = NoDecision
    /\ ai_analysis = NoAnalysis
    /\ json_payload = NoPayload
    /\ calls = NoCalls

CompareCall ==
    /\ pc = "compare_idle"
    /\ \E v \in CompareVendors, item \in CompareItems :
          /\ invoice_data' = [NoInvoice EXCEPT !.line_items = <<item>>]
          /\ vendor_match' = [NoMatch EXCEPT !.canonical_name = Some(v)]
          /\ line_comparisons' = compare_line_items(db, v, <<item>>)
    /\ pc' = "compared"
    /\ UNCHANGED <<db, math_issues, tax_check, shipping_check, extraction_warnings,
                   decision_result>>
    /\ UNCHANGED Outputs
    /\ UNCHANGED calls

CompareReturn ==
    /\ pc = "compared"
    /\ pc' = "compare_idle"
    /\ invoice_data' = NoInvoice
    /\ vendor_match' = NoMatch
    /\ line_comparisons' = <<>>
    /\ UNCHANGED <<db, math_issues, tax_check, shipping_check, extraction_warnings,
                   decision_result>>
    /\ UNCHANGED Outputs
    /\ UNCHANGED calls

NextCompare ==
    \/ CompareCall
    \/ CompareReturn

SpecCompare == InitCompare /\ [][NextCompare]_vars

---------------------------------------------------------------------------
(* check_tax, check_shipping and check_math called on their own *)

CheckSubtotals == {None, Some(0), Some(10000), Some(20000), Some(40000)}
CheckTaxes ==
    {None} \cup {Some(t) : t \in {0, 30, 50, 100, 690, 700, 710, 750, 790, 800, 825,
                                  870, 880, 900, 950, 1000, 1010, 1500, 1650, 1900,
                                  2000, 3000, 3300, 3800, 4000}}
CheckShippings == {None, Some(0), Some(4000), Some(9000), Some(20000)}
CheckVendors == {"", Acme, Zenith}

\* a check is called by an idle caller, which takes the result and is idle again
CheckPositions == {"checks_idle"}
CheckedPositions == {"tax_checked", "shipping_checked", "math_checked"}

InitChecks ==
    /\ pc = "checks_idle"
    /\ db = EmptyDb
    /\ invoice_data = NoInvoice
    /\ vendor_match = NoMatch
    /\ line_comparisons = <<>>
    /\ math_issues = <<>>
    /\ tax_check = NoCheck
    /\ shipping_check = NoCheck
    /\ extraction_warnings = <<>>
    /\ decision_result = NoDecision
    /\ ai_analysis = NoAnalysis
    /\ json_payload = NoPayload
    /\ calls = NoCalls

CheckTaxCall ==
    /\ pc \in CheckPositions
    /\ \E v \in CheckVendors, subtotal \in CheckSubtotals, tax \in CheckTaxes :
          /\ invoice_data' = [NoInvoice EXCEPT !.subtotal = subtotal, !.tax = tax]
          /\ vendor_match' = [NoMatch EXCEPT !.canonical_name = Some(v)]
          /\ tax_check' \in check_tax(v, subtotal, tax)
    /\ shipping_check' = NoCheck
    /\ math_issues' = <<>>
    /\ pc' = "tax_checked"
    /\ UNCHANGED <<db, line_comparisons, extraction_warnings, decision_result>>
    /\ UNCHANGED Outputs
    /\ UNCHANGED calls

CheckShippingCall ==
    /\ pc \in CheckPositions
    /\ \E v \in CheckVendors, shipping \in CheckShippings :
          /\ invoice_data' = [NoInvoice EXCEPT !.shipping = shipping]
          /\ vendor_match' = [NoMatch EXCEPT !.canonical_name = Some(v)]
          /\ shipping_check' = check_shipping(v, shipping)
    /\ tax_check' = NoCheck
    /\ math_issues' = <<>>
    /\ pc' = "shipping_checked"
    /\ UNCHANGED <<db, line_comparisons, extraction_warnings, decision_result>>
    /\ UNCHANGED Outputs
    /\ UNCHANGED calls

\* the line items, subtotals and totals check_math is called with
MathItems ==
    {Item("Widget", q, p, t) :
        q \in {None, Some(0), Some(2)}, p \in {None, Some(0), Some(500)},
        t \in {None, Some(0), Some(950), Some(1000), Some(1050), Some(1051)}}
MathItemLists ==
    {<<a>> : a \in MathItems}
    \cup {<<a, b>> : a, b \in {Item("Widget", Some(2), Some(500), t) :
                                  t \in {Some(0), Some(1000), Some(1050), Some(1051)}}}
MathSubtotals == {None, Some(1000), Some(1100), Some(1101)}
MathTotals == {None, Some(1000), Some(1300)}

CheckMathCall ==
    /\ pc \in CheckPositions
    /\ \E items \in MathItemLists, subtotal \in MathSubtotals, shipping \in {None, Some(200)},
          total \in MathTotals :
          /\ invoice_data' = [NoInvoice EXCEPT !.line_items = items, !.subtotal = subtotal,
                                               !.shipping = shipping, !.total = total]
          /\ math_issues' \in check_math(items, subtotal, None, shipping, total)
    /\ vendor_match' = NoMatch
    /\ tax_check' = NoCheck
    /\ shipping_check' = NoCheck
    /\ pc' = "math_checked"
    /\ UNCHANGED <<db, line_comparisons, extraction_warnings, decision_result>>
    /\ UNCHANGED Outputs
    /\ UNCHANGED calls

CheckReturn ==
    /\ pc \in CheckedPositions
    /\ pc' = "checks_idle"
    /\ invoice_data' = NoInvoice
    /\ vendor_match' = NoMatch
    /\ math_issues' = <<>>
    /\ tax_check' = NoCheck
    /\ shipping_check' = NoCheck
    /\ UNCHANGED <<db, line_comparisons, extraction_warnings, decision_result>>
    /\ UNCHANGED Outputs
    /\ UNCHANGED calls

NextChecks ==
    \/ CheckTaxCall
    \/ CheckShippingCall
    \/ CheckMathCall
    \/ CheckReturn

SpecChecks == InitChecks /\ [][NextChecks]_vars

---------------------------------------------------------------------------
(* Properties of the pipeline *)

\* the comparison of the current invoice has been made and the store is
\* still the one it was made against
Compared == pc \in {"compared", "checked", "decided"}

\* the rate compare_line_items resolved for line item i of the invoice
RateOf(i) ==
    ResolveRate(db, CanonicalOrEmpty(vendor_match),
                normalize_item_name(invoice_data.line_items[i].description))

\* the quantity factor compare_line_items applied to line item i
FactorOf(i) ==
    LET q == invoice_data.line_items[i].quantity
    IN  _quantity_adjustment_factor(IF IsNone(q) \/ q = Some(0) THEN 1 ELSE Val(q),
                                    Val(RateOf(i)).avg_qty)

\* line item i has a rate and a price, and the price divided by the
\* quantity-adjusted average is above 1.5 or below 0.75
BeyondRatioGate(i) ==
    /\ ~IsNone(RateOf(i))
    /\ ~IsNone(invoice_data.line_items[i].unit_price)
    /\ AdjustedAvgPositive(Val(RateOf(i)), FactorOf(i))
    /\ \/ RatioAbove(Val(RateOf(i)), FactorOf(i),
                     Val(invoice_data.line_items[i].unit_price), MAX_PRICE_RATIO_HIGH)
       \/ RatioBelow(Val(RateOf(i)), FactorOf(i),
                     Val(invoice_data.line_items[i].unit_price), MAX_PRICE_RATIO_LOW)

\* C3 as stated: a line item with a resolved rate whose price is above 1.5x or
\* below 0.75x the quantity-adjusted average is OUT_OF_RANGE, never IN_RANGE,
\* and an APPROVED invoice has no such item.
C3_Original ==
    Compared =>
        \A i \in 1..Len(line_comparisons) :
            BeyondRatioGate(i) =>
                /\ line_comparisons[i].status = "OUT_OF_RANGE"
                /\ decision_result.status # "APPROVED"

\* C6 as stated: every line item without a unit price is MISSING_PRICE,
\* whatever the rate lookup returns, and decide adds MISSING_PRICE:<item>.
C6_Original ==
    Compared =>
        \A i \in 1..Len(line_comparisons) :
            IsNone(invoice_data.line_items[i].unit_price) =>
                /\ line_comparisons[i].status = "MISSING_PRICE"
                /\ pc = "decided" =>
                      \E k \in 1..Len(decision_result.reason_codes) :
                          decision_result.reason_codes[k] =
                              Flag("MISSING_PRICE", <<line_comparisons[i].canonical_item>>)

\* C6, amended: a line item without a unit price is MISSING_PRICE when a rate
\* was resolved for it, and decide then adds MISSING_PRICE:<item>; when no
\* rate was resolved it is NO_CONTRACT_RATE and decide adds no MISSING_PRICE
\* code for it.
C6_MissingPrice ==
    Compared =>
        \A i \in 1..Len(line_comparisons) :
            IsNone(invoice_data.line_items[i].unit_price) =>
                LET code == Flag("MISSING_PRICE", <<line_comparisons[i].canonical_item>>)
                    coded == \E k \in 1..Len(decision_result.reason_codes) :
                                 decision_result.reason_codes[k] = code
                IN  IF IsNone(RateOf(i))
                    THEN line_comparisons[i].status = "NO_CONTRACT_RATE" /\ ~coded
                    ELSE /\ line_comparisons[i].status = "MISSING_PRICE"
                         /\ pc = "decided" => coded /\ decision_result.status = "FLAGGED"

\* an invoice was decided that has an item without price for which a rate
\* was resolved, next to an item for which none was
C6_Witness ==
    /\ pc = "decided"
    /\ \E i \in 1..Len(line_comparisons) :
          /\ IsNone(invoice_data.line_items[i].unit_price)
          /\ ~IsNone(RateOf(i))
          /\ line_comparisons[i].status = "MISSING_PRICE"
    /\ \E j \in 1..Len(line_comparisons) : IsNone(RateOf(j))

IsPrefix(s, t) == Len(s) <= Len(t) /\ SubSeq(t, 1, Len(s)) = s

\* C5: record_invoice with a status other than APPROVED returns the store
\* unchanged; each step of the pipeline keeps every invoice entry and every
\* price point of the store in place, and changes the store only when it
\* records an invoice whose decision is APPROVED.
C5_OnlyApprovedAppend ==
    [][ /\ \A st \in {"FLAGGED", "unset", ""} :
              record_invoice(db, invoice_data, st, CanonicalOrEmpty(vendor_match)) = db
        /\ IsPrefix(db.invoices, db'.invoices)
        /\ \A key \in DOMAIN db.price_history :
              /\ key \in DOMAIN db'.price_history
              /\ IsPrefix(db.price_history[key], db'.price_history[key])
        /\ db' # db => pc = "reported" /\ decision_result.status = "APPROVED"
        /\ pc = "reported" /\ decision_result.status # "APPROVED" => db' = db
      ]_vars

\* a flagged invoice, whose number is not in the store, went through the
\* recording step of a store that holds approved invoices
C5_Witness ==
    /\ pc = "done"
    /\ decision_result.status = "FLAGGED"
    /\ db.invoices # <<>>
    /\ invoice_data.invoice_number \notin InvoiceNumbers(db)

---------------------------------------------------------------------------
(* record_invoice called by two callers at once on the one file DB_PATH.   *)
(* Each call holds its own dict between _load_db and _save_db; the steps   *)
(* of a call are its load with the two checks before and after it, the     *)
(* changes to its dict, and its save.                                      *)

CallIds == {1, 2}

Call(inv, st, v) ==
    [pc |-> "called", invoice_data |-> inv, decision_status |-> st, vendor_name |-> v,
     db |-> EmptyDb]

ConcurrentCalls ==
    {Call(inv, st, v) : inv \in StoreInvoices, st \in StoreStatuses, v \in StoreVendors}

InitConcurrent ==
    /\ pc = "concurrent"
    /\ db \in InitialStores
    /\ calls \in [CallIds -> ConcurrentCalls]
    /\ invoice_data = NoInvoice
    /\ vendor_match = NoMatch
    /\ line_comparisons = <<>>
    /\ math_issues = <<>>
    /\ tax_check = NoCheck
    /\ shipping_check = NoCheck
    /\ extraction_warnings = <<>>
    /\ decision_result = NoDecision
    /\ ai_analysis = NoAnalysis
    /\ json_payload = NoPayload

\* lines 56-81: what a call that passed both checks makes of the dict it
\* loaded
Modified(d, inv, vendor_name) == record_invoice(d, inv, "APPROVED", vendor_name)

\* lines 46-54: the status check, db = _load_db(), the duplicate check
LoadStep(c) ==
    /\ calls[c].pc = "called"
    /\ calls' = [calls EXCEPT ![c] =
          IF @.decision_status # "APPROVED" THEN [@ EXCEPT !.pc = "returned"]
          ELSE IF @.invoice_data.invoice_number \in InvoiceNumbers(LoadDb(db))
               THEN [@ EXCEPT !.pc = "returned", !.db = LoadDb(db)]
               ELSE [@ EXCEPT !.pc = "loaded", !.db = LoadDb(db)]]
    /\ UNCHANGED <<pc, db, invoice_data>>
    /\ UNCHANGED Locals
    /\ UNCHANGED Outputs

\* lines 56-81: the invoice entry and the price points are appended to the
\* call's own dict
ModifyStep(c) ==
    /\ calls[c].pc = "loaded"
    /\ calls' = [calls EXCEPT ![c] =
          [@ EXCEPT !.pc = "modified",
                    !.db = Modified(calls[c].db, calls[c].invoice_data,
                                    calls[c].vendor_name)]]
    /\ UNCHANGED <<pc, db, invoice_data>>
    /\ UNCHANGED Locals
    /\ UNCHANGED Outputs

\* line 83: _save_db(db) writes the call's dict over the file.  The write
\* is one step: two writes that overlap in time can also leave a file that
\* json.load rejects, an outcome this step does not add.
SaveStep(c) ==
    /\ calls[c].pc = "modified"
    /\ db' = calls[c].db
    /\ calls' = [calls EXCEPT ![c] = [@ EXCEPT !.pc = "returned"]]
    /\ UNCHANGED <<pc, invoice_data>>
    /\ UNCHANGED Locals
    /\ UNCHANGED Outputs

NextConcurrent ==
    \/ \E c \in CallIds : LoadStep(c)
    \/ \E c \in CallIds : ModifyStep(c)
    \/ \E c \in CallIds : SaveStep(c)

SpecConcurrent == InitConcurrent /\ [][NextConcurrent]_vars

---------------------------------------------------------------------------
(* Properties of the learning store *)

InvoiceEntries(d, id) == {i \in 1..Len(d.invoices) : d.invoices[i].invoice_number = id}

PricePoints(d, id) ==
    {<<key, i>> \in UNION {{key} \X (1..Len(d.price_history[key])) :
                              key \in DOMAIN d.price_history} :
        d.price_history[key][i].invoice_id = id}

DescribedItems(inv) ==
    {i \in 1..Len(inv.line_items) : StrStrip(inv.line_items[i].description) # ""}

\* C4: after a call of record_invoice with status APPROVED the store holds
\* exactly one invoice entry with the invoice's number; when the number was
\* new it holds one price point per described line item for it, when the
\* number was already there the call left the store as it was; and a further
\* APPROVED call with that number, whatever else it carries, changes nothing.
C4_RecordIdempotent ==
    [][ (pc' = "recorded" /\ decision_result'.status = "APPROVED") =>
            LET id == invoice_data'.invoice_number
            IN  /\ Cardinality(InvoiceEntries(db', id)) = 1
                /\ id \in InvoiceNumbers(db) => db' = db
                /\ id \notin InvoiceNumbers(db) =>
                      Cardinality(PricePoints(db', id)) =
                          Cardinality(DescribedItems(invoice_data'))
                /\ \A inv \in StoreInvoices, v \in StoreVendors :
                      inv.invoice_number = id =>
                          record_invoice(db', inv, "APPROVED", v) = db'
      ]_vars

\* the last call was APPROVED, for a number the store already held under
\* another vendor, with other line items
C4_Witness ==
    /\ pc = "recorded"
    /\ decision_result.status = "APPROVED"
    /\ Len(db.invoices) >= 2
    /\ \E i \in 1..Len(db.invoices) :
          /\ db.invoices[i].invoice_number = invoice_data.invoice_number
          /\ db.invoices[i].vendor # CanonicalOrEmpty(vendor_match)
          /\ db.invoices[i].total # invoice_data.total
    /\ Cardinality(PricePoints(db, invoice_data.invoice_number))
          # Cardinality(DescribedItems(invoice_data))

---------------------------------------------------------------------------
(* Properties of check_tax *)

RecognizedRates == {VALID_TAX_RATES[i] : i \in 1..Len(VALID_TAX_RATES)}

TaxPresent ==
    pc = "tax_checked" /\ ~IsNone(invoice_data.subtotal) /\ ~IsNone(invoice_data.tax)

\* C9 as stated: with subtotal and tax present, the status is OK when
\* tax/subtotal is within 0.5 percentage points of a rate of the recognized
\* set (0.0 included), and OBSERVATION otherwise.  Distances of exactly 0.5
\* points are left out.
C9_Original ==
    (TaxPresent /\ Val(invoice_data.subtotal) > 0) =>
        LET s == Val(invoice_data.subtotal)
            t == Val(invoice_data.tax)
        IN  /\ (\E v \in RecognizedRates : TaxDistanceBelow(s, t, v))
                  => tax_check.status = "OK"
            /\ (\A v \in RecognizedRates :
                    ~TaxDistanceBelow(s, t, v) /\ ~TaxDistanceEqual(s, t, v))
                  => tax_check.status = "OBSERVATION"

\* C9, amended: with subtotal and tax present, the status is OK when the tax
\* is not zero, the subtotal is positive and tax/subtotal is less than 0.5
\* percentage points away from one of the positive recognized rates; it is
\* OBSERVATION when the tax is zero, when the subtotal is not positive, and
\* when tax/subtotal is more than 0.5 points away from every positive
\* recognized rate.
C9_TaxStatus ==
    TaxPresent =>
        LET s == Val(invoice_data.subtotal)
            t == Val(invoice_data.tax)
            positive == {v \in RecognizedRates : v > 0}
        IN  /\ (t # 0 /\ s > 0 /\ \E v \in positive : TaxDistanceBelow(s, t, v))
                  => tax_check.status = "OK"
            /\ (t = 0 \/ s <= 0 \/ \A v \in positive :
                    ~TaxDistanceBelow(s, t, v) /\ ~TaxDistanceEqual(s, t, v))
                  => tax_check.status = "OBSERVATION"
            /\ tax_check.status \in {"OK", "OBSERVATION"}

\* a tax within 0.5 points of the rate 0.0, on a positive subtotal, was
\* checked and reported as an observation
C9_Witness ==
    /\ TaxPresent
    /\ Val(invoice_data.subtotal) > 0
    /\ Val(invoice_data.tax) > 0
    /\ TaxDistanceBelow(Val(invoice_data.subtotal), Val(invoice_data.tax), 0)
    /\ tax_check.status = "OBSERVATION"

---------------------------------------------------------------------------
(* Properties of check_math *)

\* line item i of the invoice carries a quantity, a unit price and a line total
CarriesAll(i) ==
    /\ ~IsNone(invoice_data.line_items[i].quantity)
    /\ ~IsNone(invoice_data.line_items[i].unit_price)
    /\ ~IsNone(invoice_data.line_items[i].line_total)

\* |quantity * unitPrice - lineTotal| in cents
LineDifference(i) ==
    Abs(Val(invoice_data.line_items[i].quantity) * Val(invoice_data.line_items[i].unit_price)
        - Val(invoice_data.line_items[i].line_total))

LineMathIssues == Len(SelectSeq(math_issues, LAMBDA m : m = "Line math"))

\* C11 as stated: check_math reports a line-math issue for a line item that
\* carries quantity, unit price and line total exactly when
\* |quantity * unitPrice - lineTotal| > 0.50; so the number of line-math issues
\* is the number of such items (an item at a difference of exactly 0.50 may
\* count or not).
C11_Original ==
    pc = "math_checked" =>
        LET n == Len(invoice_data.line_items)
            beyond == {i \in 1..n : CarriesAll(i) /\ LineDifference(i) > 50}
            atLeast == {i \in 1..n : CarriesAll(i) /\ LineDifference(i) >= 50}
        IN  /\ Cardinality(beyond) <= LineMathIssues
            /\ LineMathIssues <= Cardinality(atLeast)

---------------------------------------------------------------------------
(* Properties of the decision record *)

\* C12 as stated: no reason code occurs more than once in the reason_codes
\* of a decision.
C12_Original ==
    pc = "decided" =>
        \A i, j \in 1..Len(decision_result.reason_codes) :
            i # j => decision_result.reason_codes[i] # decision_result.reason_codes[j]

---------------------------------------------------------------------------
(* Properties of compare_line_items *)

\* C13 as stated: compare_line_items does not classify a line item that has
\* no description: the call fails, so no result with one of the
\* classification statuses exists for such an item.
C13_Original ==
    pc = "compared" =>
        \A i \in 1..Len(line_comparisons) :
            invoice_data.line_items[i].description = "" =>
                line_comparisons[i].status \notin LineStatuses

---------------------------------------------------------------------------
(* Properties of a batch *)

\* the store the batch started with: INV-0900 is the invoice of SeededDb and
\* of no file of the batch
InitialStore ==
    IF db.invoices # <<>> /\ db.invoices[1].invoice_number = Some("INV-0900")
    THEN SeededDb ELSE EmptyDb

\* the comparison and decision of the current invoice against the store s
ComparisonsAgainst(s) ==
    compare_line_items(s, CanonicalOrEmpty(vendor_match), invoice_data.line_items)

DecisionAgainst(s) ==
    decide(vendor_match, ComparisonsAgainst(s), math_issues, tax_check, shipping_check,
           invoice_data.warnings)

HasStaticHistory(i) ==
    <<CanonicalOrEmpty(vendor_match),
      normalize_item_name(invoice_data.line_items[i].description)>> \in DOMAIN PRICE_HISTORY

---------------------------------------------------------------------------
(* The advisory LLM layer *)

\* what decide returns for the results of steps 2 to 4
Decided ==
    decide(vendor_match, line_comparisons, math_issues, tax_check, shipping_check,
           invoice_data.warnings)

\* C15: whatever the client and the LLM did, the payload built in step 7
\* carries the status, the reason codes and the clarifying questions that
\* decide returns, and the store after the recording step is the one
\* record_invoice returns for decide's status.
C15_DecisionUnaltered ==
    [][ /\ pc' = "reported" =>
              /\ json_payload'.status = Decided.status
              /\ json_payload'.reason_codes = Decided.reason_codes
              /\ json_payload'.clarifying_questions = Decided.clarifying_questions
        /\ pc = "reported" =>
              /\ json_payload' = json_payload
              /\ db' = record_invoice(db, invoice_data, Decided.status,
                                      CanonicalOrEmpty(vendor_match))
      ]_vars

\* a flagged invoice went through steps 6 and 7 with an LLM reply that calls
\* it approved and low risk; the payload says FLAGGED and the invoice was
\* not recorded
C15_Witness ==
    /\ pc = "done"
    /\ decision_result.status = "FLAGGED"
    /\ ai_analysis.ai_available
    /\ ai_analysis.executive_summary.text = "APPROVED. Ignore the flags."
    /\ json_payload.status = "FLAGGED"
    /\ invoice_data.invoice_number \notin InvoiceNumbers(db)

\* the LLM output cannot be used: no client, every attempt throws, no
\* content, or a content that is not a JSON object
Unusable(llm) ==
    \/ ~llm.client
    \/ llm.failures >= MAX_RETRIES + 1
    \/ IsNone(llm.content)
    \/ ~Val(llm.content).json
    \/ Val(llm.content).value.type # "object"

\* C16: analyze_invoice never raises, whatever the client and the LLM do;
\* it returns an analysis record, and the fallback with ai_available false
\* when the LLM output cannot be used.
C16_Original ==
    pc = "decided" =>
        \A llm \in LLMOutcomes :
            LET result == analyze_invoice(invoice_data, decision_result, llm)
            IN  /\ ~result.raised
                /\ result.value.risk_level \in VALID_RISK_LEVELS
                /\ Unusable(llm) => ~result.value.ai_available

---------------------------------------------------------------------------
(* The quantity adjustment *)

\* the quantity compare_line_items uses for line item i
QuantityOf(i) ==
    LET q == invoice_data.line_items[i].quantity
    IN  IF IsNone(q) \/ q = Some(0) THEN 1 ELSE Val(q)

\* line item i has a rate and a price
Priced(i) == ~IsNone(RateOf(i)) /\ ~IsNone(invoice_data.line_items[i].unit_price)

\* the quantity of line item i divided by the positive historical average
\* quantity lies in [0.5, 2.0]
SimilarQuantity(i) ==
    LET a == Val(RateOf(i)).avg_qty
    IN  /\ a.num > 0
        /\ a.num <= 2 * QuantityOf(i) * a.den
        /\ QuantityOf(i) * a.den <= 2 * a.num

---------------------------------------------------------------------------
(* The source of a rate *)

\* the key compare_line_items looks up for line item i
KeyOf(i) == <<CanonicalOrEmpty(vendor_match), line_comparisons[i].canonical_item>>

\* the prices of the static history under a key
StaticPrices(key) ==
    IF key \in DOMAIN PRICE_HISTORY
    THEN [j \in 1..Len(PRICE_HISTORY[key]) |-> PRICE_HISTORY[key][j].price]
    ELSE <<>>

\* the prices of the learning store under a key
LearnedPrices(key) ==
    IF key \in DOMAIN db.price_history
    THEN LET points == SelectSeq(db.price_history[key], LAMBDA h : ~IsNone(h.unit_price))
         IN  [j \in 1..Len(points) |-> Val(points[j].unit_price)]
    ELSE <<>>

\* comparison i reports the statistic of exactly these prices
ReportsStatisticOf(i, prices, source) ==
    /\ line_comparisons[i].rate_source = Some(source)
    /\ line_comparisons[i].data_points = Len(prices)
    /\ line_comparisons[i].contracted_avg = Some(Frac(SeqSum(prices), Len(prices)))

\* C18: a priced item whose (vendor, canonical item) key has static history
\* is compared with the statistic of the static points of that key alone,
\* whatever the learning store holds; a key without static history is
\* compared with the statistic of the learned points of that key alone; and
\* a key with neither has no rate.
C18_OneSourceOneKey ==
    pc = "compared" =>
        \A i \in 1..Len(line_comparisons) :
            /\ (StaticPrices(KeyOf(i)) = <<>> /\ LearnedPrices(KeyOf(i)) = <<>>) =>
                   line_comparisons[i].status = "NO_CONTRACT_RATE"
            /\ (~IsNone(invoice_data.line_items[i].unit_price)
                    /\ StaticPrices(KeyOf(i)) # <<>>) =>
                   ReportsStatisticOf(i, StaticPrices(KeyOf(i)), "historical")
            /\ (~IsNone(invoice_data.line_items[i].unit_price)
                    /\ StaticPrices(KeyOf(i)) = <<>> /\ LearnedPrices(KeyOf(i)) # <<>>) =>
                   ReportsStatisticOf(i, LearnedPrices(KeyOf(i)), "learned_db")

\* a priced item was compared whose key has static history and learned
\* points as well
C18_Witness ==
    /\ pc = "compared"
    /\ \E i \in 1..Len(line_comparisons) :
          /\ ~IsNone(invoice_data.line_items[i].unit_price)
          /\ StaticPrices(KeyOf(i)) # <<>>
          /\ LearnedPrices(KeyOf(i)) # <<>>
          /\ line_comparisons[i].rate_source = Some("historical")

---------------------------------------------------------------------------
(* The clean invoice *)

\* no check raises a flag: the vendor is recognized, every item is in
\* range, there is no math issue and no critical extraction warning
NoCheckFlags ==
    /\ vendor_match.match_type \in {"exact", "alias", "fuzzy"}
    /\ \A i \in 1..Len(line_comparisons) : line_comparisons[i].status = "IN_RANGE"
    /\ math_issues = <<>>
    /\ \A i \in 1..Len(extraction_warnings) : extraction_warnings[i] \notin CriticalWarnings

\* C19: when no check raises a flag, decide returns APPROVED without reason
\* codes, and clarifying_questions is exactly the default question about
\* confirming quantities and descriptions.
C19_DefaultQuestionOnly ==
    (pc = "decided" /\ NoCheckFlags) =>
        /\ decision_result.status = "APPROVED"
        /\ decision_result.reason_codes = <<>>
        /\ decision_result.clarifying_questions = <<DefaultQuestion>>

\* decide returned for a fuzzy-matched vendor with two items in range, tax
\* and shipping observations and a non-critical extraction warning
C19_Witness ==
    /\ pc = "decided"
    /\ NoCheckFlags
    /\ vendor_match.match_type = "fuzzy"
    /\ Len(line_comparisons) = 2
    /\ tax_check.status = "OBSERVATION"
    /\ shipping_check.status = "OBSERVATION"
    /\ extraction_warnings # <<>>
    /\ Len(decision_result.clarifying_questions) = 1

---------------------------------------------------------------------------
(* Scenario B: the paper at $200.00 *)

\* line item i is the A4 Paper Box of Acme Supplies Inc. at a unit price of
\* 200.00 and a quantity of 24
PaperAtTwoHundred(i) ==
    /\ vendor_match.canonical_name = Some(Acme)
    /\ normalize_item_name(invoice_data.line_items[i].description) = "A4 Paper Box"
    /\ invoice_data.line_items[i].unit_price = Some(20000)
    /\ invoice_data.line_items[i].quantity = Some(24)

\* C20: the static history of (Acme Supplies Inc., A4 Paper Box) holds the
\* prices 88.72, 24.19 and 84.99; a line item of that vendor and item at
\* 200.00 and quantity 24 is compared as OUT_OF_RANGE, and the decision
\* carries the reason code PRICE_ANOMALY:A4 Paper Box with status FLAGGED.
C20_ScenarioB ==
    /\ StaticPrices(<<Acme, "A4 Paper Box">>) = <<8872, 2419, 8499>>
    /\ \A i \in 1..Len(line_comparisons) :
          PaperAtTwoHundred(i) =>
              /\ line_comparisons[i].status = "OUT_OF_RANGE"
              /\ pc \in {"decided", "analyzed", "reported", "done"} =>
                    /\ decision_result.status = "FLAGGED"
                    /\ \E j \in 1..Len(decision_result.reason_codes) :
                          decision_result.reason_codes[j] =
                              Flag("PRICE_ANOMALY", <<"A4 Paper Box">>)

\* an invoice with that line item went through the whole pipeline, against a
\* store that holds approved invoices, and was not recorded
C20_Witness ==
    /\ pc = "done"
    /\ \E i \in 1..Len(line_comparisons) : PaperAtTwoHundred(i)
    /\ decision_result.status = "FLAGGED"
    /\ db.invoices # <<>>
    /\ invoice_data.invoice_number \notin InvoiceNumbers(db)

---------------------------------------------------------------------------
(* Divisions *)

\* C21: compare_line_items never divides by zero: for a priced item no
\* divisor it evaluates is zero; with an adjusted average that is not
\* positive the ratio is the sentinel, which is beyond the gate, so the item
\* is not OUTSIDE_RANGE; and an OUTSIDE_RANGE item has a positive buffered
\* limit on the side it left the range.
C21_NoDivisionByZero ==
    pc = "compared" =>
        \A i \in 1..Len(line_comparisons) :
            Priced(i) =>
                LET rate  == Val(RateOf(i))
                    price == Val(invoice_data.line_items[i].unit_price)
                IN  /\ 0 \notin Divisors(rate, FactorOf(i), price)
                    /\ ~AdjustedAvgPositive(rate, FactorOf(i)) =>
                           line_comparisons[i].status \in {"IN_RANGE", "OUT_OF_RANGE"}
                    /\ line_comparisons[i].status = "OUTSIDE_RANGE" =>
                           /\ AdjustedMax(rate, FactorOf(i)) > 0
                           /\ ~AtLeastAdjustedMin(rate, FactorOf(i), price) =>
                                  AdjustedMin(rate, FactorOf(i)) > 0

\* a priced item was compared with a rate whose average is zero, at a price
\* outside the range
C21_Witness ==
    /\ pc = "compared"
    /\ \E i \in 1..Len(line_comparisons) :
          /\ Priced(i)
          /\ Val(RateOf(i)).avg.num = 0
          /\ Val(invoice_data.line_items[i].unit_price) > 0
          /\ line_comparisons[i].status = "OUT_OF_RANGE"

---------------------------------------------------------------------------
(* The documented quantity factors *)

\* the factor f lies between lo and hi hundredths
Between(f, lo, hi) == lo * f.den <= 100 * f.num /\ 100 * f.num <= hi * f.den

---------------------------------------------------------------------------
(* The approval condition *)

\* C23: decide returns APPROVED if and only if the vendor match type is
\* exact, alias or fuzzy, every line comparison is IN_RANGE, math_issues is
\* empty and no extraction warning is critical; otherwise it returns FLAGGED.
C23_ApprovedIff ==
    pc = "decided" =>
        /\ (decision_result.status = "APPROVED") <=> NoCheckFlags
        /\ (decision_result.status = "FLAGGED") <=> ~NoCheckFlags

\* decide returned FLAGGED for a low-confidence vendor match when every
\* other check was clean
C23_Witness ==
    /\ pc = "decided"
    /\ vendor_match.match_type = "fuzzy_low_confidence"
    /\ line_comparisons # <<>>
    /\ \A i \in 1..Len(line_comparisons) : line_comparisons[i].status = "IN_RANGE"
    /\ math_issues = <<>>
    /\ extraction_warnings = <<>>
    /\ decision_result.status = "FLAGGED"

---------------------------------------------------------------------------
(* The default question *)

\* C24 as stated: the default question appears in clarifying_questions only
\* when the status is APPROVED.
C24_Original ==
    pc = "decided" =>
        ((\E i \in 1..Len(decision_result.clarifying_questions) :
              decision_result.clarifying_questions[i] = DefaultQuestion)
            => decision_result.status = "APPROVED")

---------------------------------------------------------------------------
(* The round trip through the learning store *)

\* C25 as stated: after record_invoice stored an APPROVED invoice of vendor
\* v, the lookup compare_line_items performs for each of its described and
\* priced line items, get_learned_rate(v, normalize_item_name(d)), returns
\* a statistic that includes the item's price.
C25_Original ==
    [][ (pc' = "recorded" /\ db' # db) =>
            \A i \in DescribedItems(invoice_data') :
                LET item    == invoice_data'.line_items[i]
                    learned == get_learned_rate(db', CanonicalOrEmpty(vendor_match'),
                                                normalize_item_name(item.description))
                IN  ~IsNone(item.unit_price) =>
                        /\ ~IsNone(learned)
                        /\ Val(learned).min <= Val(item.unit_price)
                        /\ Val(item.unit_price) <= Val(learned).max
      ]_vars

---------------------------------------------------------------------------
(* Learned rates in a run that starts with an empty store *)

---------------------------------------------------------------------------
(* The absent quantity *)

\* C27 as stated: a priced line item whose quantity is absent or zero is
\* compared with the quantity factor 1: no quantity adjustment is reported
\* and the classification is the one against the unadjusted range and
\* average.
C27_Original ==
    pc = "compared" =>
        \A i \in 1..Len(line_comparisons) :
            (Priced(i) /\ invoice_data.line_items[i].quantity \in {None, Some(0)}) =>
                /\ IsNone(line_comparisons[i].qty_adjustment)
                /\ line_comparisons[i].status =
                       ClassifyPrice(Val(RateOf(i)), Frac(1, 1),
                                     Val(invoice_data.line_items[i].unit_price))

---------------------------------------------------------------------------
(* The single data point *)

\* C28: against a rate built from a single positive data point a price is
\* never OUTSIDE_RANGE, whatever the price and the quantity: it is IN_RANGE
\* or OUT_OF_RANGE, the buffer of 55% putting both buffered limits beyond
\* the ratio gate.
C28_SinglePointNeverOutside ==
    pc = "compared" =>
        \A i \in 1..Len(line_comparisons) :
            (Priced(i) /\ Val(RateOf(i)).n = 1 /\ Val(RateOf(i)).min > 0) =>
                /\ SampleBuffer(Val(RateOf(i)).n) = 55
                /\ line_comparisons[i].status \in {"IN_RANGE", "OUT_OF_RANGE"}

\* a price of more than 1.5 times the single data point was compared and
\* is IN_RANGE
C28_Witness ==
    /\ pc = "compared"
    /\ \E i \in 1..Len(line_comparisons) :
          /\ Priced(i)
          /\ Val(RateOf(i)).n = 1
          /\ 2 * Val(invoice_data.line_items[i].unit_price) > 3 * Val(RateOf(i)).min
          /\ IsNone(line_comparisons[i].qty_adjustment)
          /\ line_comparisons[i].status = "IN_RANGE"

---------------------------------------------------------------------------
(* Which invoices the duplicate check skips *)

StoredAs(d, vendor_name, id) ==
    \E i \in 1..Len(d.invoices) :
        /\ d.invoices[i].vendor = vendor_name
        /\ d.invoices[i].invoice_number = id

\* C30 as stated: a call of record_invoice with status APPROVED leaves the
\* store as it was only if the store already holds an invoice of the same
\* vendor with the same invoice number, the invoice having a number; any
\* other approved invoice is recorded, with one price point per described
\* line item.
C30_Original ==
    [][ (pc' = "recorded" /\ decision_result'.status = "APPROVED") =>
            LET id == invoice_data'.invoice_number
                v  == CanonicalOrEmpty(vendor_match')
            IN  IF ~IsNone(id) /\ StoredAs(db, v, id)
                THEN db' = db
                ELSE /\ Len(db'.invoices) = Len(db.invoices) + 1
                     /\ StoredAs(db', v, id)
                     /\ \A i \in DescribedItems(invoice_data') :
                           LET key == HistoryKey(v, StrStrip(invoice_data'.line_items[i].description))
                           IN  /\ key \in DOMAIN db'.price_history
                               /\ \E k \in 1..Len(db'.price_history[key]) :
                                     /\ db'.price_history[key][k].invoice_id = id
                                     /\ db'.price_history[key][k].unit_price
                                            = invoice_data'.line_items[i].unit_price
      ]_vars

---------------------------------------------------------------------------
(* Two record_invoice calls at once *)

AllReturned == \A c \in CallIds : calls[c].pc = "returned"

\* the store holds the call's invoice under its vendor and one price point
\* of the invoice for each of its described line items
Present(d, call) ==
    /\ StoredAs(d, call.vendor_name, call.invoice_data.invoice_number)
    /\ Cardinality(PricePoints(d, call.invoice_data.invoice_number))
          = Cardinality(DescribedItems(call.invoice_data))

\* C29 as stated: once two concurrent record_invoice calls for APPROVED
\* invoices with distinct invoice numbers have both returned, the store
\* holds both invoices and all their price points, however their load,
\* modify and save steps interleaved.  (No initial store holds a number of
\* StoreInvoices.)
C29_Original ==
    ( /\ pc = "concurrent"
      /\ AllReturned
      /\ \A c \in CallIds :
            /\ calls[c].decision_status = "APPROVED"
            /\ ~IsNone(calls[c].invoice_data.invoice_number)
      /\ calls[1].invoice_data.invoice_number # calls[2].invoice_data.invoice_number )
    => \A c \in CallIds : Present(db, calls[c])

====
